---------------------------- MODULE Spec2Model ----------------------------
(***************************************************************************)
(* A model of spa-version-proxy (src/main.go, the last and complete        *)
(* variant of the program, lines 599-932, and src/proxy.go).               *)
(*                                                                         *)
(* Strings are sequences of one-character strings, so that the path and    *)
(* escaping functions of the Go library the handlers call (path.Clean,     *)
(* path.Join, path.Ext, url.PathEscape, the cookie value sanitiser) are    *)
(* computed character by character, as the library computes them.          *)
(***************************************************************************)
EXTENDS Integers, Sequences, FiniteSets, TLC

(***************************************************************************)
(* Bounds of the model.                                                    *)
(***************************************************************************)
\* longest request path given to AppRewrite on its own
MaxRewriteLen == 5
\* longest request path given to VersionSwitch
MaxPathLen == 4
\* longest version in the query string
MaxQueryLen == 2
\* longest version in the request cookie
MaxCookieLen == 1
\* number of requests the server receives
MaxReqs == 2

(***************************************************************************)
(* Characters and strings.                                                 *)
(***************************************************************************)
Slash == "/"
Dot == "."

\* bytes a request path is built from: the separator, the dot, a letter
PathChars == {Slash, Dot, "a"}
\* bytes a version is built from: the path bytes and one byte that is
\* neither path-safe nor cookie-safe
VersionChars == {Slash, Dot, "a", ";"}

RECURSIVE StringsUpTo(_, _)
StringsUpTo(chars, n) ==
  IF n = 0 THEN {<<>>}
  ELSE LET shorter == StringsUpTo(chars, n - 1)
       IN  shorter \cup {Append(s, c) : s \in shorter, c \in chars}

\* s[from..] (1-based), the empty string when from is past the end
Tail_(s, from) == SubSeq(s, from, Len(s))

IsPrefix(p, s) == Len(p) <= Len(s) /\ SubSeq(s, 1, Len(p)) = p

(***************************************************************************)
(* path.Clean, as the Go library computes it: r is the next byte to read   *)
(* (1-based here), out the output buffer, dotdot the length of the output  *)
(* prefix that `..` must not back over.                                    *)
(***************************************************************************)
RECURSIVE BackUp(_, _)
\* out.w--; for out.w > dotdot && out.index(out.w) != '/' { out.w-- }
BackUp(out, dotdot) ==
  IF Len(out) > dotdot /\ out[Len(out)] # Slash
  THEN BackUp(SubSeq(out, 1, Len(out) - 1), dotdot)
  ELSE out

RECURSIVE CopyElem(_, _, _)
\* for ; r < n && path[r] != '/'; r++ { out.append(path[r]) }
CopyElem(p, r, out) ==
  IF r <= Len(p) /\ p[r] # Slash
  THEN CopyElem(p, r + 1, Append(out, p[r]))
  ELSE <<r, out>>

RECURSIVE CleanLoop(_, _, _, _, _)
CleanLoop(p, r, out, dotdot, rooted) ==
  LET n == Len(p) IN
  IF r > n THEN out
  ELSE IF p[r] = Slash THEN CleanLoop(p, r + 1, out, dotdot, rooted)
  ELSE IF p[r] = Dot /\ (r = n \/ p[r + 1] = Slash)
       THEN CleanLoop(p, r + 1, out, dotdot, rooted)
  ELSE IF p[r] = Dot /\ p[r + 1] = Dot /\ (r + 1 = n \/ p[r + 2] = Slash)
       THEN IF Len(out) > dotdot
            THEN CleanLoop(p, r + 2,
                           BackUp(SubSeq(out, 1, Len(out) - 1), dotdot),
                           dotdot, rooted)
            ELSE IF ~rooted
            THEN LET o1 == IF Len(out) > 0 THEN Append(out, Slash) ELSE out
                     o2 == o1 \o <<Dot, Dot>>
                 IN  CleanLoop(p, r + 2, o2, Len(o2), rooted)
            ELSE CleanLoop(p, r + 2, out, dotdot, rooted)
  ELSE LET o1 == IF (rooted /\ Len(out) # 1) \/ (~rooted /\ Len(out) # 0)
                 THEN Append(out, Slash) ELSE out
           ce == CopyElem(p, r, o1)
       IN  CleanLoop(p, ce[1], ce[2], dotdot, rooted)

Clean(p) ==
  IF p = <<>> THEN <<Dot>>
  ELSE LET rooted == p[1] = Slash
           out == IF rooted THEN CleanLoop(p, 2, <<Slash>>, 1, TRUE)
                  ELSE CleanLoop(p, 1, <<>>, 0, FALSE)
       IN  IF out = <<>> THEN <<Dot>> ELSE out

\* path.Join of two elements: empty elements before the first non-empty one
\* are dropped, the rest is joined with "/" and cleaned
Join(a, b) ==
  IF a # <<>> THEN Clean(a \o <<Slash>> \o b)
  ELSE IF b # <<>> THEN Clean(b)
  ELSE <<>>

RECURSIVE ExtFromAnyElem(_, _)
\* path.Ext gone wrong: the search for the dot does not stop at the last "/"
ExtFromAnyElem(p, i) ==
  IF i >= 1
  THEN IF p[i] = Dot THEN Tail_(p, i) ELSE ExtFromAnyElem(p, i - 1)
  ELSE <<>>

RECURSIVE ExtFrom(_, _)
\* for i := len(path) - 1; i >= 0 && path[i] != '/'; i--
ExtFrom(p, i) ==
  IF i >= 1 /\ p[i] # Slash
  THEN IF p[i] = Dot THEN Tail_(p, i) ELSE ExtFrom(p, i - 1)
  ELSE <<>>

Ext(p) == ExtFrom(p, Len(p))

\* url.PathEscape gone wrong: the dot is escaped too
EscapeByteDots(c) ==
  IF c = Slash THEN <<"%", "2", "F">>
  ELSE IF c = ";" THEN <<"%", "3", "B">>
  ELSE IF c = Dot THEN <<"%", "2", "E">>
  ELSE <<c>>

\* url.PathEscape: every byte that is not allowed in a path segment becomes
\* its %XX form; of the model's bytes, "/" and ";" are escaped
EscapeByte(c) ==
  IF c = Slash THEN <<"%", "2", "F">>
  ELSE IF c = ";" THEN <<"%", "3", "B">>
  ELSE <<c>>

RECURSIVE PathEscape(_)
PathEscape(s) ==
  IF s = <<>> THEN <<>> ELSE EscapeByte(Head(s)) \o PathEscape(Tail(s))


(***************************************************************************)
(* State.                                                                  *)
(***************************************************************************)
VARIABLES
  \* one table-driven test case, as in src/main_test.go: a request handed
  \* to one middleware with a recording next handler
  tcPath,     \* req.URL.Path on entry
  tcQuery,    \* req.URL.Query().Get("version"): "" when the parameter is absent
  tcCookie,   \* the version-override cookies of the request, first one first
  tcDefault,  \* what defaultVersion.Read() returns
  tcStage,    \* "in" before the middleware ran, "next" once next.ServeHTTP was called
  tcOut,      \* what the next handler and the response recorder saw
  \* the running server
  store,      \* threadSafeString.value, the default version
  files,      \* regular files under the cache directory: full name -> bytes
  dirs,       \* directories that exist
  pc,         \* per request: the handler or step it is about to run
  req,        \* per request: the *http.Request (URL.Path is rewritten in place)
  rw,         \* per request: the http.ResponseWriter
  res,        \* per request: the origin's response held by doCacheFetch
  off,        \* per request: offset of cacheFile, in cells written
  obs,        \* per request: what happened so far (observation only)
  \* main, the default-version poller and the readers of the store
  storeLen,   \* the length word of threadSafeString.value (store is its data)
  mode,       \* "fixed": DEFAULT_VERSION is set; "poll": it is polled
  mainpc,     \* main: "start", "listen", "serving", "fatal" (the process exited)
  ppc,        \* the refresh goroutine: "none" when it does not run
  polled,     \* what the last fetchVersion returned
  sleep,      \* seconds of the time.Sleep the refresh goroutine is in
  mutex,      \* threadSafeString.mutex: writer, pending writer, readers
  rd,         \* per reader: its position in threadSafeString.Read
  got,        \* per reader: the string words read and the value last returned
  passed,     \* values the store was built with or that were passed to Write
  good,       \* trimmed body of the latest poll that returned 200
  \* the dev proxy
  devConfigs, \* the records of the DEV_PATHS file, in order; <<>> without one
  dev         \* per request: what ProxyPaths and doProxy did with it

tcVars == <<tcPath, tcQuery, tcCookie, tcDefault, tcStage, tcOut>>
srvVars == <<store, files, dirs, pc, req, rw, res, off, obs>>
pollVars == <<mode, mainpc, ppc, polled, sleep, mutex, rd, got, passed, good>>
cacheVars == <<files, dirs, pc, req, rw, res, off, obs>>
devVars == <<devConfigs, dev>>
vars == <<tcPath, tcQuery, tcCookie, tcDefault, tcStage, tcOut,
          store, files, dirs, pc, req, rw, res, off, obs,
          storeLen, mode, mainpc, ppc, polled, sleep, mutex, rd, got, passed, good,
          devConfigs, dev>>

IndexHtml == <<Slash, "i", "n", "d", "e", "x", Dot, "h", "t", "m", "l">>
NoStore == "no-store"

RootedPaths(n) == {<<Slash>> \o s : s \in StringsUpTo(PathChars, n - 1)}

\* values a request cookie can carry: the cookie parser of the server drops
\* a cookie whose value holds a byte such as ";"
CookieChars == VersionChars \ {";"}
\* net/http validCookieValueByte: of the bytes of the model, every one but ";"
validCookieValueByte(c) == c # ";"

\* values the VersionStore can hold: a plain version, the empty string (an
\* empty default-version.txt), a parent segment and a second plain version
DefaultVersions == {<<"a">>, <<>>, <<Dot, Dot>>, <<"b">>}

\* the response before any handler touched it
NoOut == [path |-> <<>>, version |-> <<>>, setCookie |-> <<>>, cacheControl |-> <<>>]

(***************************************************************************)
(* AppRewrite                                                              *)
(***************************************************************************)
AppRewritePath(p) == IF Ext(p) = <<>> THEN IndexHtml ELSE p

(***************************************************************************)
(* VersionSwitch                                                           *)
(***************************************************************************)
\* http.SetCookie writes the value through the library's sanitiser, which
\* drops every byte that is not valid in a cookie value
RECURSIVE sanitizeCookieValue(_)
sanitizeCookieValue(v) ==
  IF v = <<>> THEN <<>>
  ELSE (IF validCookieValueByte(Head(v)) THEN <<Head(v)>> ELSE <<>>)
       \o sanitizeCookieValue(Tail(v))

\* the version variable at line 893, before escaping
ResolveVersion(query, cookie, dflt) ==
  IF query # <<>> THEN query
  ELSE IF cookie # <<>> THEN cookie[1]
  ELSE dflt

\* VersionSwitch gone wrong: the joined path is not rooted before it is cleaned
NewPathUnrooted(version, p) == Clean(Join(PathEscape(version), p))

\* VersionSwitch gone wrong: the version is not escaped
NewPathUnescaped(version, p) == Clean(<<Slash>> \o Join(version, p))

\* newPath, lines 893-894
NewPath(version, p) ==
  Clean(<<Slash>> \o Join(PathEscape(version), p))

\* the Set-Cookie values added to the response, in order
SetCookies(query, cookie) ==
  IF query # <<>> THEN <<sanitizeCookieValue(query)>>
  ELSE IF cookie # <<>> THEN <<sanitizeCookieValue(cookie[1])>>
  ELSE <<>>

\* VersionSwitch gone wrong: no-store is set in every branch
CacheControlAlways(query, cookie) == <<NoStore>>

\* the Cache-Control values of the response
CacheControl(query, cookie) ==
  IF query # <<>> \/ cookie # <<>> THEN <<NoStore>> ELSE <<>>

VersionSwitchResult(p, query, cookie, dflt) ==
  LET version == ResolveVersion(query, cookie, dflt)
  IN  [path |-> NewPath(version, p),
       version |-> version,
       setCookie |-> SetCookies(query, cookie),
       cacheControl |-> CacheControl(query, cookie)]

(***************************************************************************)
(* The cache directory.                                                    *)
(***************************************************************************)
\* SPA_PROXY_CACHE_DIR of the running server
CacheDir == <<Slash, "c">>
\* cache directories the naming of files is checked for: the variable unset
\* and an absolute directory
CacheDirs == {<<>>, <<Slash, "c">>}

\* filepath.Join on a system whose separator is "/"
FilepathJoin(a, b) == Join(a, b)

\* fullName of httpDir.Create
CreateName(dir, name) ==
  FilepathJoin(IF dir = <<>> THEN <<Dot>> ELSE dir, Clean(<<Slash>> \o name))

\* fullName of http.Dir.Open, which httpDir.Create was copied from
OpenName(dir, name) ==
  FilepathJoin(IF dir = <<>> THEN <<Dot>> ELSE dir, Clean(<<Slash>> \o name))

\* filepath.Dir: the name without its last element
RECURSIVE DropLastElem(_)
DropLastElem(p) ==
  IF p = <<>> \/ p[Len(p)] = Slash THEN p
  ELSE DropLastElem(SubSeq(p, 1, Len(p) - 1))

FilepathDir(p) == Clean(DropLastElem(p))

\* the directories os.MkdirAll(d) walks through, d included
RECURSIVE DirChain(_)
DirChain(d) ==
  IF FilepathDir(d) = d THEN {d} ELSE {d} \cup DirChain(FilepathDir(d))

(***************************************************************************)
(* The origin's responses and their serialized form.  A file is a sequence *)
(* of cells, each the bytes of one write call of Response.Write: the       *)
(* status line, the header block (with the Content-Length), and the body.  *)
(***************************************************************************)
OriginResponses ==
  { [status |-> 200, header |-> "h1", body |-> <<"x">>],
    [status |-> 200, header |-> "h2", body |-> <<"y", "z">>],
    [status |-> 404, header |-> "h1", body |-> <<>>] }

NoRes == [status |-> 0, header |-> "", body |-> <<>>]

StatusLine(code) == [k |-> "status", n |-> code, h |-> ""]
HeaderBlock(h, len) == [k |-> "header", n |-> len, h |-> h]
BodyCell(b) == [k |-> "body", n |-> 0, h |-> b]
\* bytes never written, below a write past the end of the file
Hole == [k |-> "hole", n |-> 0, h |-> "0"]

\* Response.Write
Serialize(r) ==
  <<StatusLine(r.status), HeaderBlock(r.header, Len(r.body))>>
    \o [i \in 1..Len(r.body) |-> BodyCell(r.body[i])]

\* a write gone wrong: the cell is appended, whatever the offset
WriteAppend(f, o, cell) == f \o <<cell>>

\* a write of one cell at offset o (cells before it) of a file holding f
WriteAt(f, o, cell) ==
  IF o < Len(f) THEN [f EXCEPT ![o + 1] = cell]
  ELSE f \o [i \in 1..(o - Len(f)) |-> Hole] \o <<cell>>

Min(a, b) == IF a < b THEN a ELSE b

\* http.ReadResponse on the bytes f: ok is false when the status line or the
\* header block cannot be read; the body holds what the file has of the
\* Content-Length bytes, and short tells that it has fewer
ReadResponse(f) ==
  IF Len(f) >= 2 /\ f[1].k = "status" /\ f[2].k = "header"
  THEN [ok |-> TRUE, status |-> f[1].n,
        header |-> [name |-> f[2].h, length |-> f[2].n],
        body |-> [i \in 1..Min(f[2].n, Len(f) - 2) |-> f[i + 2].h],
        short |-> Len(f) - 2 < f[2].n]
  ELSE [ok |-> FALSE, status |-> 0, header |-> [name |-> "", length |-> 0],
        body |-> <<>>, short |-> FALSE]

(***************************************************************************)
(* The response writer.                                                    *)
(***************************************************************************)
\* status 0: WriteHeader was not called yet
NewResponseWriter ==
  [status |-> 0, xcache |-> <<>>, cacheControl |-> <<>>, setCookie |-> <<>>,
   header |-> <<>>, body |-> <<>>]

\* rw.WriteHeader: the first call decides the status
WriteHeader(w, code) == IF w.status = 0 THEN [w EXCEPT !.status = code] ELSE w

doError(w) == WriteHeader(w, 500)

\* a lookup gone wrong: an entry that cannot be parsed counts as not found
LookupMalformedIsMiss(name) ==
  IF name \in DOMAIN files
  THEN IF ReadResponse(files[name]).ok THEN "file" ELSE "notexist"
  ELSE IF name \in dirs THEN "dir"
  ELSE "notexist"

\* a lookup gone wrong: nothing is ever found
LookupNeverFinds(name) == "notexist"

\* a lookup gone wrong: an entry that is being written counts as not found
LookupIncompleteIsMiss(name) ==
  IF name \in DOMAIN files
  THEN IF \E q \in DOMAIN pc :
            pc[q] = "Write" /\ CreateName(CacheDir, req[q].path) = name
       THEN "notexist" ELSE "file"
  ELSE IF name \in dirs THEN "dir"
  ELSE "notexist"

\* what fs.root.Open and the read of the file give for the full name:
\* the bytes of a regular file, an error for a directory, not-exist otherwise
Lookup(name) ==
  IF name \in DOMAIN files THEN "file"
  ELSE IF name \in dirs THEN "dir"
  ELSE "notexist"

\* the Cache-Control values among the header fields of a header block: the
\* origin sends one with the block "h2"
StoredCacheControl(h) == IF h = "h2" THEN <<"max-age">> ELSE <<>>

\* a copy gone wrong: to.Set in place of to.Add
copyHeadersSet(from, to) ==
  [to EXCEPT !.header = <<from>>,
             !.cacheControl = IF StoredCacheControl(from.name) # <<>>
                              THEN StoredCacheControl(from.name) ELSE @]

\* copyHeaders: every value of every field is added to the response's header
copyHeaders(from, to) ==
  [to EXCEPT !.header = @ \o <<from>>,
             !.cacheControl = @ \o StoredCacheControl(from.name)]

\* tryServeFile on an opened regular file holding f: the writer afterwards
ServeFile(w, f) ==
  LET parsed == ReadResponse(f) IN
  IF ~parsed.ok THEN w
  ELSE [WriteHeader(copyHeaders(parsed.header, w), parsed.status) EXCEPT
          !.body = @ \o parsed.body]

\* the error tryServeFile returns on an opened regular file holding f
ServeFileErr(f) ==
  LET parsed == ReadResponse(f) IN
  IF ~parsed.ok THEN "malformed"
  ELSE IF parsed.short THEN "unexpected EOF"
  ELSE "nil"

\* the error tryServeFile returns for what the lookup found, as doError gets
\* it ("" for nil)
TryServeFileErr(found, name) ==
  CASE found = "notexist" -> "notexist"
    [] found = "dir" -> "open"
    [] found = "file" ->
         CASE ServeFileErr(files[name]) = "malformed" -> "malformed"
           [] ServeFileErr(files[name]) = "unexpected EOF" -> "stream"
           [] OTHER -> ""

\* a header set gone wrong: X-Cache is left as it was
SetXCacheMissForgotten(w) == w

\* rw.Header().Set("X-Cache", "miss")
SetXCacheMiss(w) == [w EXCEPT !.xcache = <<"miss">>]

(***************************************************************************)
(* The test cases: one middleware applied to one request.                  *)
(***************************************************************************)
Reqs == 1..MaxReqs

NoReq == [path |-> <<>>, query |-> <<>>, cookie |-> <<>>, orig |-> <<>>]
\* first: what the first lookup found; lookups, fetches: how many were made;
\* created: fs.root.Create returned a file; filled: res.Write returned nil;
\* filledAfter: the requests whose fill had ended when this one's ended;
\* version: the version VersionSwitch resolved; after: the requests answered
\* before the first lookup; overlap: another request was filling the same
\* file between this request's first lookup and its answer; err: the error
\* handed to doError ("" for none): "open" (the lookup failed otherwise than
\* by not-exist), "malformed", "stream" (the stored body ended early),
\* "fetch", "create", "write", "notexist" (the second lookup found nothing);
\* reads: how often defaultVersion.Read was called; opened, createdAt: the
\* full names given to os.Open and os.Create; fetched: the paths of the URLs
\* given to client.Get
NoObs == [first |-> "", lookups |-> 0, fetches |-> 0, created |-> FALSE,
          filled |-> FALSE, filledAfter |-> {}, version |-> <<>>, after |-> {},
          overlap |-> FALSE, err |-> "", reads |-> 0, opened |-> {},
          fetched |-> {}, createdAt |-> {}]

(***************************************************************************)
(* The default version: fetchVersion, and the words of the stored string.  *)
(***************************************************************************)
\* time.Second * 5, the wait after a failed poll
BackoffSeconds == 5
\* time.Minute, the wait after a successful poll
IntervalSeconds == 60

Space == " "
Newline == "\n"

\* strings.TrimSpace
RECURSIVE TrimLeft(_)
TrimLeft(s) ==
  IF s # <<>> /\ s[1] \in {Space, Newline} THEN TrimLeft(Tail(s)) ELSE s
RECURSIVE TrimRight(_)
TrimRight(s) ==
  IF s # <<>> /\ s[Len(s)] \in {Space, Newline}
  THEN TrimRight(SubSeq(s, 1, Len(s) - 1)) ELSE s
TrimSpace(s) == TrimRight(TrimLeft(s))

\* what client.Get(url) and the read of the body give for default-version.txt:
\* a transport error, a status and a body, or a body that fails to be read
VersionResponses ==
  { [err |-> "transport", status |-> 0, body |-> <<>>, readErr |-> FALSE],
    [err |-> "", status |-> 200, body |-> <<Space, "a", Newline>>, readErr |-> FALSE],
    [err |-> "", status |-> 200, body |-> <<"b", "b">>, readErr |-> FALSE],
    [err |-> "", status |-> 404, body |-> <<"n", "f">>, readErr |-> FALSE],
    [err |-> "", status |-> 200, body |-> <<"b", "b">>, readErr |-> TRUE] }

NoPoll == [version |-> <<>>, err |-> "none"]

\* a fetch gone wrong: the status is not looked at
fetchVersionAnyStatus(resp) ==
  IF resp.err # "" THEN [version |-> <<>>, err |-> resp.err]
  ELSE IF resp.readErr THEN [version |-> <<>>, err |-> "read"]
  ELSE [version |-> TrimSpace(resp.body), err |-> ""]

\* fetchVersion: the version and the error it returns (err "" is nil)
fetchVersion(resp) ==
  IF resp.err # "" THEN [version |-> <<>>, err |-> resp.err]
  ELSE IF resp.status # 200 THEN [version |-> <<>>, err |-> "status"]
  ELSE IF resp.readErr THEN [version |-> <<>>, err |-> "read"]
  ELSE [version |-> TrimSpace(resp.body), err |-> ""]

\* sync.RWMutex: w, a writer holds it; pending, a writer called Lock and waits
\* for the readers to leave; r, the readers that hold it
FreeMutex == [w |-> FALSE, pending |-> FALSE, r |-> {}]

\* a lock gone wrong: RLock never waits
CanRLockAlways(m) == TRUE

\* RLock returns: no writer holds the mutex or waits for it
CanRLock(m) == ~m.w /\ ~m.pending

\* Lock returns: the readers have left
CanLock(m) == ~m.w /\ m.r = {}

\* a string as its two words, and the words of a whole string v
Words(data, len) == [data |-> data, len |-> len]
Whole(v) == Words(v, Len(v))
NoGot == [data |-> <<>>, len |-> 0, value |-> Words(<<>>, 0), returned |-> FALSE]

\* what ProxyPaths did with a request: rec, the record that matched (0 for
\* none); next, next.ServeHTTP was called; sent, the upstream request that
\* was made; err, the error
NoDev == [rec |-> 0, next |-> FALSE, sent |-> <<>>, err |-> ""]

\* main without DEV_PATHS: ProxyPaths is not in the chain
DevIdle ==
  /\ devConfigs = <<>>
  /\ dev = [r \in 1..MaxReqs |-> NoDev]

\* the poller and the readers at rest and not observed, the store holding a
\* whole string
PollIdle ==
  /\ storeLen = Len(store)
  /\ mode = "poll"
  /\ mainpc = "serving"
  /\ ppc = "sleep"
  /\ polled = NoPoll
  /\ sleep = IntervalSeconds
  /\ mutex = FreeMutex
  /\ rd = [r \in 1..MaxReqs |-> "idle"]
  /\ got = [r \in 1..MaxReqs |-> NoGot]
  /\ passed = {}
  /\ good = <<>>

SrvInit ==
  /\ files = << >>
  /\ dirs = DirChain(CacheDir)
  /\ pc = [r \in Reqs |-> "idle"]
  /\ req = [r \in Reqs |-> NoReq]
  /\ rw = [r \in Reqs |-> NewResponseWriter]
  /\ res = [r \in Reqs |-> NoRes]
  /\ off = [r \in Reqs |-> 0]
  /\ obs = [r \in Reqs |-> NoObs]

TcIdle ==
  /\ tcPath = <<Slash>>
  /\ tcQuery = <<>>
  /\ tcCookie = <<>>
  /\ tcDefault = <<"a">>
  /\ tcStage = "in"
  /\ tcOut = NoOut

InitRewrite ==
  /\ tcPath \in RootedPaths(MaxRewriteLen)
  /\ tcQuery = <<>>
  /\ tcCookie = <<>>
  /\ tcDefault = <<"a">>
  /\ tcStage = "in"
  /\ tcOut = NoOut
  /\ store = <<"a">>
  /\ SrvInit
  /\ PollIdle
  /\ DevIdle

TestAppRewrite ==
  /\ tcStage = "in"
  /\ tcStage' = "next"
  /\ tcOut' = [tcOut EXCEPT !.path = AppRewritePath(tcPath)]
  /\ UNCHANGED <<tcPath, tcQuery, tcCookie, tcDefault>>
  /\ UNCHANGED srvVars
  /\ UNCHANGED <<storeLen, pollVars, devVars>>

SpecRewrite == InitRewrite /\ [][TestAppRewrite]_vars

InitSwitch ==
  /\ tcPath \in RootedPaths(MaxPathLen)
  /\ tcQuery \in StringsUpTo(VersionChars, MaxQueryLen)
  /\ tcCookie \in {<<>>} \cup {<<v>> : v \in StringsUpTo(CookieChars, MaxCookieLen)}
  \* the store's value is varied in the cases that read it; in the others it
  \* is a version that neither the query nor the cookie can carry
  /\ tcDefault \in IF tcQuery = <<>> /\ tcCookie = <<>>
                   THEN DefaultVersions ELSE {<<"b">>}
  /\ tcStage = "in"
  /\ tcOut = NoOut
  /\ store = tcDefault
  /\ SrvInit
  /\ PollIdle
  /\ DevIdle

TestVersionSwitch ==
  /\ tcStage = "in"
  /\ tcStage' = "next"
  /\ tcOut' = VersionSwitchResult(tcPath, tcQuery, tcCookie, tcDefault)
  /\ UNCHANGED <<tcPath, tcQuery, tcCookie, tcDefault>>
  /\ UNCHANGED srvVars
  /\ UNCHANGED <<storeLen, pollVars, devVars>>

SpecSwitch == InitSwitch /\ [][TestVersionSwitch]_vars

(***************************************************************************)
(* The running server: the handler chain of main, one goroutine per        *)
(* request, and the default-version poller.                                *)
(***************************************************************************)
\* requests the server receives: the entry document, an asset, the entry
\* document of a version chosen in the query string, and an asset below a
\* path that is itself an asset
SrvRequests ==
  { [path |-> <<Slash>>, query |-> <<>>, cookie |-> <<>>],
    [path |-> <<Slash, "a", Dot, "a">>, query |-> <<>>, cookie |-> <<>>],
    [path |-> <<Slash>>, query |-> <<"b">>, cookie |-> <<>>],
    [path |-> <<Slash, "a", Dot, "a", Slash, "a", Dot, "a">>, query |-> <<>>,
     cookie |-> <<>>] }

\* values of default-version.txt at the origin
SrvVersions == {<<"a">>, <<"b">>}

Init ==
  /\ TcIdle
  /\ store \in SrvVersions
  /\ SrvInit
  /\ PollIdle
  /\ DevIdle

\* steps of doCacheFetch and after, between the miss and the response
MissStages == {"doCacheFetch", "Create", "Write", "retry"}

\* a chain gone wrong: VersionSwitch is wrapped around AppRewrite
ChainSwapped == <<"VersionSwitch", "AppRewrite", "ServeHTTP">>

\* main: the handlers from the outermost to the file server (Logger, which
\* only records, left out)
Chain == <<"AppRewrite", "VersionSwitch", "ServeHTTP">>

\* next.ServeHTTP of the handler h
NextHandler(h) ==
  Chain[(CHOOSE i \in 1..Len(Chain) : Chain[i] = h) + 1]

\* the server accepts a request and starts its goroutine
Request(r) ==
  /\ pc[r] = "idle"
  /\ \A q \in Reqs : q < r => pc[q] # "idle"
  /\ \E in \in SrvRequests :
       req' = [req EXCEPT ![r] = [path |-> in.path, query |-> in.query,
                                  cookie |-> in.cookie, orig |-> in.path]]
  /\ pc' = [pc EXCEPT ![r] = Chain[1]]
  /\ UNCHANGED <<store, files, dirs, rw, res, off, obs>>
  /\ UNCHANGED tcVars
  /\ UNCHANGED <<storeLen, pollVars, devVars>>

AppRewrite(r) ==
  /\ pc[r] = "AppRewrite"
  /\ req' = [req EXCEPT ![r].path = AppRewritePath(@)]
  /\ pc' = [pc EXCEPT ![r] = NextHandler("AppRewrite")]
  /\ UNCHANGED <<store, files, dirs, rw, res, off, obs>>
  /\ UNCHANGED tcVars
  /\ UNCHANGED <<storeLen, pollVars, devVars>>

VersionSwitch(r) ==
  /\ pc[r] = "VersionSwitch"
  /\ LET out == VersionSwitchResult(req[r].path, req[r].query, req[r].cookie, store)
     IN  /\ req' = [req EXCEPT ![r].path = out.path]
         /\ rw' = [rw EXCEPT ![r].setCookie = @ \o out.setCookie,
                             ![r].cacheControl =
                                IF out.cacheControl # <<>> THEN out.cacheControl ELSE @]
         /\ obs' = [obs EXCEPT ![r].version = out.version,
                                ![r].reads = IF req[r].query = <<>> /\ req[r].cookie = <<>>
                                             THEN @ + 1 ELSE @]
  /\ pc' = [pc EXCEPT ![r] = NextHandler("VersionSwitch")]
  /\ UNCHANGED <<store, files, dirs, res, off>>
  /\ UNCHANGED tcVars
  /\ UNCHANGED <<storeLen, pollVars, devVars>>

\* requests in the middle of a fill of the file `name`
Filling(name) ==
  {q \in Reqs : pc[q] \in MissStages /\ CreateName(CacheDir, req[q].path) = name}

\* fileServer.ServeHTTP up to the first tryServeFile and what follows it
\* without a fetch
ServeHTTP(r) ==
  /\ pc[r] = "ServeHTTP"
  /\ LET p == Clean(req[r].path)
         name == OpenName(CacheDir, p)
         w0 == [rw[r] EXCEPT !.xcache = <<"hit">>]
         found == Lookup(name)
         others == Filling(name) \ {r}
         o1 == [q \in Reqs |->
                  IF q = r
                  THEN [obs[q] EXCEPT !.first = found, !.lookups = @ + 1,
                                      !.after = {d \in Reqs : pc[d] = "done"},
                                      !.overlap = others # {},
                                      !.opened = @ \cup {name},
                                      !.err = IF found = "notexist" THEN ""
                                              ELSE TryServeFileErr(found, name)]
                  ELSE IF q \in others THEN [obs[q] EXCEPT !.overlap = TRUE]
                  ELSE obs[q]]
     IN  /\ req' = [req EXCEPT ![r].path = p]
         /\ obs' = o1
         /\ CASE found = "notexist" ->
                   /\ rw' = [rw EXCEPT ![r] = SetXCacheMiss(w0)]
                   /\ pc' = [pc EXCEPT ![r] = "doCacheFetch"]
              [] found = "dir" ->
                   /\ rw' = [rw EXCEPT ![r] = doError(w0)]
                   /\ pc' = [pc EXCEPT ![r] = "done"]
              [] found = "file" ->
                   /\ rw' = [rw EXCEPT ![r] =
                               IF ServeFileErr(files[name]) = "nil"
                               THEN ServeFile(w0, files[name])
                               ELSE doError(ServeFile(w0, files[name]))]
                   /\ pc' = [pc EXCEPT ![r] = "done"]
  /\ UNCHANGED <<store, files, dirs, res, off>>
  /\ UNCHANGED tcVars
  /\ UNCHANGED <<storeLen, pollVars, devVars>>

\* fs.sourceURL.Path, the path of SOURCE
SourcePath == <<Slash, "s">>

\* a fetch gone wrong: the path below the version directory is fetched
UrlOutPathUnversioned(p) ==
  LET below == {i \in 2..Len(p) : p[i] = Slash}
  IN  Join(SourcePath,
           IF below = {} THEN <<Slash>>
           ELSE Tail_(p, CHOOSE i \in below : \A j \in below : i <= j))

\* urlOut.Path of doCacheFetch
UrlOutPath(p) == Join(SourcePath, p)

\* a fetch gone wrong: a response whose status is not 200 is an error
ClientGetChecksStatus(r) ==
  /\ pc[r] = "doCacheFetch"
  /\ \/ /\ \E o \in OriginResponses :
             /\ res' = [res EXCEPT ![r] = o]
             /\ IF o.status = 200
                THEN /\ pc' = [pc EXCEPT ![r] = "Create"]
                     /\ obs' = [obs EXCEPT ![r].fetches = @ + 1,
                                            ![r].fetched = @ \cup {UrlOutPath(req[r].path)}]
                     /\ UNCHANGED rw
                ELSE /\ rw' = [rw EXCEPT ![r] = doError(@)]
                     /\ pc' = [pc EXCEPT ![r] = "done"]
                     /\ obs' = [obs EXCEPT ![r].fetches = @ + 1, ![r].err = "fetch",
                                            ![r].fetched = @ \cup {UrlOutPath(req[r].path)}]
     \/ /\ rw' = [rw EXCEPT ![r] = doError(@)]
        /\ pc' = [pc EXCEPT ![r] = "done"]
        /\ obs' = [obs EXCEPT ![r].fetches = @ + 1, ![r].err = "fetch",
                               ![r].fetched = @ \cup {UrlOutPath(req[r].path)}]
        /\ UNCHANGED res
  /\ UNCHANGED <<store, files, dirs, req, off>>
  /\ UNCHANGED tcVars
  /\ UNCHANGED <<storeLen, pollVars, devVars>>

\* a fetch gone wrong: the cache file is created before the outbound GET,
\* and stays when the GET fails
ClientGetAfterCreate(r) ==
  /\ pc[r] = "doCacheFetch"
  /\ \/ /\ \E o \in OriginResponses : res' = [res EXCEPT ![r] = o]
        /\ pc' = [pc EXCEPT ![r] = "Create"]
        /\ obs' = [obs EXCEPT ![r].fetches = @ + 1,
                               ![r].fetched = @ \cup {UrlOutPath(req[r].path)}]
        /\ UNCHANGED <<rw, files>>
     \/ /\ rw' = [rw EXCEPT ![r] = doError(@)]
        /\ pc' = [pc EXCEPT ![r] = "done"]
        /\ obs' = [obs EXCEPT ![r].fetches = @ + 1, ![r].err = "fetch",
                               ![r].fetched = @ \cup {UrlOutPath(req[r].path)}]
        /\ files' = (CreateName(CacheDir, req[r].path) :> <<>>) @@ files
        /\ UNCHANGED res
  /\ UNCHANGED <<store, dirs, req, off>>
  /\ UNCHANGED tcVars
  /\ UNCHANGED <<storeLen, pollVars, devVars>>

\* doCacheFetch, the outbound GET: the origin answers with some response,
\* or the GET fails
ClientGet(r) ==
  /\ pc[r] = "doCacheFetch"
  /\ \/ /\ \E o \in OriginResponses : res' = [res EXCEPT ![r] = o]
        /\ pc' = [pc EXCEPT ![r] = "Create"]
        /\ obs' = [obs EXCEPT ![r].fetches = @ + 1,
                               ![r].fetched = @ \cup {UrlOutPath(req[r].path)}]
        /\ UNCHANGED rw
     \/ /\ rw' = [rw EXCEPT ![r] = doError(@)]
        /\ pc' = [pc EXCEPT ![r] = "done"]
        /\ obs' = [obs EXCEPT ![r].fetches = @ + 1, ![r].err = "fetch",
                               ![r].fetched = @ \cup {UrlOutPath(req[r].path)}]
        /\ UNCHANGED res
  /\ UNCHANGED <<store, files, dirs, req, off>>
  /\ UNCHANGED tcVars
  /\ UNCHANGED <<storeLen, pollVars, devVars>>

\* doCacheFetch, fs.root.Create: the directories above the file are made,
\* errors ignored, and the file is created or truncated
Create(r) ==
  /\ pc[r] = "Create"
  /\ LET name == CreateName(CacheDir, req[r].path)
         chain == DirChain(FilepathDir(name))
         mkdirOk == chain \cap DOMAIN files = {}
         newDirs == IF mkdirOk THEN dirs \cup chain ELSE dirs
     IN  /\ dirs' = newDirs
         /\ IF mkdirOk /\ name \notin newDirs
            THEN /\ files' = (name :> <<>>) @@ files
                 /\ off' = [off EXCEPT ![r] = 0]
                 /\ pc' = [pc EXCEPT ![r] = "Write"]
                 /\ obs' = [obs EXCEPT ![r].created = TRUE,
                                        ![r].createdAt = @ \cup {name}]
                 /\ UNCHANGED rw
            ELSE /\ rw' = [rw EXCEPT ![r] = doError(@)]
                 /\ pc' = [pc EXCEPT ![r] = "done"]
                 /\ obs' = [obs EXCEPT ![r].err = "create",
                                        ![r].createdAt = @ \cup {name}]
                 /\ UNCHANGED <<files, off>>
  /\ UNCHANGED <<store, req, res>>
  /\ UNCHANGED tcVars
  /\ UNCHANGED <<storeLen, pollVars, devVars>>

\* doCacheFetch, res.Write(cacheFile): one write call, at the offset of this
\* request's file descriptor; after the last one the file is closed and
\* doCacheFetch returns nil.  A write, or the read of the body it copies,
\* can fail, and what was written stays.
Write(r) ==
  /\ pc[r] = "Write"
  /\ LET name == CreateName(CacheDir, req[r].path)
         cells == Serialize(res[r])
     IN  \/ /\ files' = [files EXCEPT ![name] = WriteAt(@, off[r], cells[off[r] + 1])]
            /\ off' = [off EXCEPT ![r] = @ + 1]
            /\ IF off[r] + 1 = Len(cells)
               THEN /\ pc' = [pc EXCEPT ![r] = "retry"]
                    /\ obs' = [obs EXCEPT ![r].filled = TRUE,
                                           ![r].filledAfter =
                                              {q \in Reqs : obs[q].filled}]
               ELSE UNCHANGED <<pc, obs>>
            /\ UNCHANGED rw
         \/ /\ rw' = [rw EXCEPT ![r] = doError(@)]
            /\ pc' = [pc EXCEPT ![r] = "done"]
            /\ obs' = [obs EXCEPT ![r].err = "write"]
            /\ UNCHANGED <<files, off>>
  /\ UNCHANGED <<store, dirs, req, res>>
  /\ UNCHANGED tcVars
  /\ UNCHANGED <<storeLen, pollVars, devVars>>

\* a retry gone wrong: a second lookup that fails starts another fetch
RetryFetchesAgain(r) ==
  /\ pc[r] = "retry"
  /\ LET name == OpenName(CacheDir, req[r].path)
         found == Lookup(name)
         err == TryServeFileErr(found, name)
     IN  /\ obs' = [obs EXCEPT ![r].lookups = @ + 1,
                                ![r].opened = @ \cup {name},
                                ![r].err = err]
         /\ rw' = [rw EXCEPT ![r] =
                     IF found = "file" /\ err = ""
                     THEN ServeFile(@, files[name])
                     ELSE @]
         /\ pc' = [pc EXCEPT ![r] = IF err = "" THEN "done" ELSE "doCacheFetch"]
  /\ UNCHANGED <<store, files, dirs, req, res, off>>
  /\ UNCHANGED tcVars
  /\ UNCHANGED <<storeLen, pollVars, devVars>>

\* fileServer.ServeHTTP, the second tryServeFile
Retry(r) ==
  /\ pc[r] = "retry"
  /\ LET name == OpenName(CacheDir, req[r].path)
         found == Lookup(name)
     IN  /\ obs' = [obs EXCEPT ![r].lookups = @ + 1,
                                ![r].opened = @ \cup {name},
                                ![r].err = TryServeFileErr(found, name)]
         /\ rw' = [rw EXCEPT ![r] =
                     IF found = "file"
                     THEN IF ServeFileErr(files[name]) = "nil"
                          THEN ServeFile(@, files[name])
                          ELSE doError(ServeFile(@, files[name]))
                     ELSE doError(@)]
  /\ pc' = [pc EXCEPT ![r] = "done"]
  /\ UNCHANGED <<store, files, dirs, req, res, off>>
  /\ UNCHANGED tcVars
  /\ UNCHANGED <<storeLen, pollVars, devVars>>

\* a refresh gone wrong: a new default version empties the cache
RefreshPurges ==
  /\ \E v \in SrvVersions : store' = v
  /\ files' = IF store' # store THEN << >> ELSE files
  /\ UNCHANGED <<dirs, pc, req, rw, res, off, obs>>
  /\ UNCHANGED tcVars
  /\ storeLen' = Len(store')
  /\ UNCHANGED <<pollVars, devVars>>

\* the poller stores the default version it fetched
Refresh ==
  /\ \E v \in SrvVersions : store' = v
  /\ UNCHANGED <<files, dirs, pc, req, rw, res, off, obs>>
  /\ UNCHANGED tcVars
  /\ storeLen' = Len(store')
  /\ UNCHANGED <<pollVars, devVars>>

Next ==
  \/ \E r \in Reqs : Request(r)
  \/ \E r \in Reqs : AppRewrite(r)
  \/ \E r \in Reqs : VersionSwitch(r)
  \/ \E r \in Reqs : ServeHTTP(r)
  \/ \E r \in Reqs : ClientGet(r)
  \/ \E r \in Reqs : Create(r)
  \/ \E r \in Reqs : Write(r)
  \/ \E r \in Reqs : Retry(r)
  \/ Refresh

Spec == Init /\ [][Next]_vars

\* the server receives the request of the test case
ChainRequest ==
  /\ pc[1] = "idle"
  /\ req' = [req EXCEPT ![1] = [path |-> tcPath, query |-> tcQuery,
                                 cookie |-> tcCookie, orig |-> tcPath]]
  /\ pc' = [pc EXCEPT ![1] = Chain[1]]
  /\ UNCHANGED <<store, files, dirs, rw, res, off, obs>>
  /\ UNCHANGED tcVars
  /\ UNCHANGED <<storeLen, pollVars, devVars>>

\* one request of any short path, query version, cookie and default version
\* through the chain, up to its lookup in the empty cache
NextChain ==
  \/ ChainRequest
  \/ AppRewrite(1)
  \/ VersionSwitch(1)
  \/ ServeHTTP(1)

SpecChain == InitSwitch /\ [][NextChain]_vars

\* the goroutine of request r is between the start of the chain and the
\* return of the file server: one of AppRewrite(r) ... Retry(r) can be taken
Handling(r) == pc[r] \notin {"idle", "done"}

\* a step of the goroutine of request r: a step of AppRewrite(r) ... Retry(r),
\* the only ones that move a request in the chain or its file offset
Handle(r) ==
  /\ Handling(r)
  /\ pc'[r] # pc[r] \/ off'[r] # off[r]

\* the Go scheduler runs every goroutine that can run, and no call of a
\* handler blocks for ever (the outbound GET has a timeout of ten seconds):
\* weak fairness of the steps of each request, with ENABLED written out
SpecFair ==
  /\ Spec
  /\ \A r \in Reqs : []<>(~Handling(r)) \/ []<><<Handle(r)>>_vars

(***************************************************************************)
(* main up to ListenAndServe, the refresh goroutine of                     *)
(* defaultVersionPoller, and requests that read the default version.       *)
(***************************************************************************)
InitPoller ==
  /\ TcIdle
  /\ SrvInit
  /\ mode \in {"fixed", "poll"}
  /\ store = IF mode = "fixed" THEN <<"a">> ELSE <<>>
  /\ storeLen = Len(store)
  /\ mainpc = "start"
  /\ ppc = "none"
  /\ polled = NoPoll
  /\ sleep = 0
  /\ mutex = FreeMutex
  /\ rd = [r \in Reqs |-> "idle"]
  /\ got = [r \in Reqs |-> NoGot]
  /\ passed = IF mode = "fixed" THEN {store} ELSE {}
  /\ good = store
  /\ DevIdle

\* the trimmed body of a poll that returned 200, else the one before
GoodAfter(resp) ==
  IF resp.err = "" /\ resp.status = 200 /\ ~resp.readErr
  THEN TrimSpace(resp.body) ELSE good

\* a startup gone wrong: the error of the first fetch is not looked at
InitialFetchNeverFatal(out) == FALSE

\* main: the error defaultVersionPoller returns goes to log.Fatalf
InitialFetchFatal(out) == out.err # ""

\* main up to the return of defaultVersionPoller: with DEFAULT_VERSION the
\* reader is the fixed string; without, the first fetch, and on success the
\* threadSafeString and the go statement
MainStart ==
  /\ mainpc = "start"
  /\ IF mode = "fixed"
     THEN /\ mainpc' = "listen"
          /\ UNCHANGED <<store, storeLen, ppc, polled, passed, good>>
     ELSE \E resp \in VersionResponses :
            LET out == fetchVersion(resp) IN
            /\ polled' = out
            /\ IF InitialFetchFatal(out)
               THEN /\ mainpc' = "fatal"
                    /\ UNCHANGED <<store, storeLen, ppc, passed, good>>
               ELSE /\ mainpc' = "listen"
                    /\ store' = out.version
                    /\ storeLen' = Len(out.version)
                    /\ passed' = {out.version}
                    /\ good' = GoodAfter(resp)
                    /\ ppc' = "fetch"
  /\ UNCHANGED <<mode, sleep, mutex, rd, got>>
  /\ UNCHANGED <<tcVars, cacheVars, devVars>>

\* main: http.ListenAndServe serves, or returns an error and log.Fatal ends
\* the process
MainListen ==
  /\ mainpc = "listen"
  /\ mainpc' \in {"serving", "fatal"}
  /\ UNCHANGED <<store, storeLen, mode, ppc, polled, sleep, mutex, rd, got, passed, good>>
  /\ UNCHANGED <<tcVars, cacheVars, devVars>>

\* the process runs and the refresh goroutine was started
Polling == mainpc \in {"listen", "serving"} /\ ppc # "none"

\* a loop gone wrong: a failed poll ends the goroutine
PollFailedReturns == [ppc |-> "none", sleep |-> 0]

\* the refresh loop after a failed poll: time.Sleep(time.Second * 5), continue
PollFailed == [ppc |-> "sleep", sleep |-> BackoffSeconds]

\* the refresh loop: fetchVersion
PollFetch ==
  /\ Polling /\ ppc = "fetch"
  /\ \E resp \in VersionResponses :
       LET out == fetchVersion(resp) IN
       /\ polled' = out
       /\ good' = GoodAfter(resp)
       /\ IF out.err # ""
          THEN /\ ppc' = PollFailed.ppc
               /\ sleep' = PollFailed.sleep
               /\ UNCHANGED passed
          ELSE /\ ppc' = "Write"
               /\ passed' = passed \cup {out.version}
               /\ UNCHANGED sleep
  /\ UNCHANGED <<store, storeLen, mode, mainpc, mutex, rd, got>>
  /\ UNCHANGED <<tcVars, cacheVars, devVars>>

\* threadSafeString.Write: tss.mutex.Lock is called, new readers wait
PollLock ==
  /\ Polling /\ ppc = "Write"
  /\ mutex' = [mutex EXCEPT !.pending = TRUE]
  /\ ppc' = "Lock"
  /\ UNCHANGED <<store, storeLen, mode, mainpc, polled, sleep, rd, got, passed, good>>
  /\ UNCHANGED <<tcVars, cacheVars, devVars>>

\* threadSafeString.Write: tss.mutex.Lock returns
PollLocked ==
  /\ Polling /\ ppc = "Lock"
  /\ CanLock(mutex)
  /\ mutex' = [mutex EXCEPT !.w = TRUE, !.pending = FALSE]
  /\ ppc' = "locked"
  /\ UNCHANGED <<store, storeLen, mode, mainpc, polled, sleep, rd, got, passed, good>>
  /\ UNCHANGED <<tcVars, cacheVars, devVars>>

\* a Write gone wrong: the value is never replaced
PollAssignNever ==
  /\ Polling /\ ppc = "locked"
  /\ ppc' = "Unlock"
  /\ UNCHANGED <<store, storeLen, mode, mainpc, polled, sleep, mutex, rd, got, passed, good>>
  /\ UNCHANGED <<tcVars, cacheVars, devVars>>

\* threadSafeString.Write: the comparison, and the data word of the assignment
PollAssign ==
  /\ Polling /\ ppc = "locked"
  /\ IF Words(store, storeLen) = Whole(polled.version)
     THEN /\ ppc' = "Unlock"
          /\ UNCHANGED store
     ELSE /\ store' = polled.version
          /\ ppc' = "assignLen"
  /\ UNCHANGED <<storeLen, mode, mainpc, polled, sleep, mutex, rd, got, passed, good>>
  /\ UNCHANGED <<tcVars, cacheVars, devVars>>

\* threadSafeString.Write: the length word of the assignment
PollAssignLen ==
  /\ Polling /\ ppc = "assignLen"
  /\ storeLen' = Len(store)
  /\ ppc' = "Unlock"
  /\ UNCHANGED <<store, mode, mainpc, polled, sleep, mutex, rd, got, passed, good>>
  /\ UNCHANGED <<tcVars, cacheVars, devVars>>

\* a Write gone wrong: it returns without Unlock
PollUnlockKeepsLock ==
  /\ Polling /\ ppc = "Unlock"
  /\ ppc' = "sleep"
  /\ sleep' = IntervalSeconds
  /\ UNCHANGED <<store, storeLen, mode, mainpc, polled, mutex, rd, got, passed, good>>
  /\ UNCHANGED <<tcVars, cacheVars, devVars>>

\* threadSafeString.Write returns (the deferred Unlock), and the loop goes to
\* time.Sleep(time.Minute)
PollUnlock ==
  /\ Polling /\ ppc = "Unlock"
  /\ mutex' = [mutex EXCEPT !.w = FALSE]
  /\ ppc' = "sleep"
  /\ sleep' = IntervalSeconds
  /\ UNCHANGED <<store, storeLen, mode, mainpc, polled, rd, got, passed, good>>
  /\ UNCHANGED <<tcVars, cacheVars, devVars>>

\* time.Sleep returns and the loop starts over
PollWake ==
  /\ Polling /\ ppc = "sleep"
  /\ ppc' = "fetch"
  /\ sleep' = 0
  /\ UNCHANGED <<store, storeLen, mode, mainpc, polled, mutex, rd, got, passed, good>>
  /\ UNCHANGED <<tcVars, cacheVars, devVars>>

PollerStep ==
  \/ PollFetch \/ PollLock \/ PollLocked \/ PollAssign \/ PollAssignLen
  \/ PollUnlock \/ PollWake

\* normalStringReader.Read, for a request that needs the default version
ReadFixed(r) ==
  /\ mainpc = "serving" /\ mode = "fixed"
  /\ rd[r] = "idle"
  /\ got' = [got EXCEPT ![r] = [data |-> store, len |-> storeLen,
                                value |-> Words(store, storeLen),
                                returned |-> TRUE]]
  /\ UNCHANGED <<store, storeLen, mode, mainpc, ppc, polled, sleep, mutex, rd, passed, good>>
  /\ UNCHANGED <<tcVars, cacheVars, devVars>>

\* threadSafeString.Read is called by a request that needs the default version
ReadCall(r) ==
  /\ mainpc = "serving" /\ mode = "poll"
  /\ rd[r] = "idle"
  /\ rd' = [rd EXCEPT ![r] = "RLock"]
  /\ UNCHANGED <<store, storeLen, mode, mainpc, ppc, polled, sleep, mutex, got, passed, good>>
  /\ UNCHANGED <<tcVars, cacheVars, devVars>>

\* threadSafeString.Read: tss.mutex.RLock returns
ReadRLock(r) ==
  /\ mainpc = "serving"
  /\ rd[r] = "RLock"
  /\ CanRLock(mutex)
  /\ mutex' = [mutex EXCEPT !.r = @ \cup {r}]
  /\ rd' = [rd EXCEPT ![r] = "data"]
  /\ UNCHANGED <<store, storeLen, mode, mainpc, ppc, polled, sleep, got, passed, good>>
  /\ UNCHANGED <<tcVars, cacheVars, devVars>>

\* threadSafeString.Read: the data word of tss.value is read
ReadData(r) ==
  /\ mainpc = "serving"
  /\ rd[r] = "data"
  /\ got' = [got EXCEPT ![r].data = store]
  /\ rd' = [rd EXCEPT ![r] = "len"]
  /\ UNCHANGED <<store, storeLen, mode, mainpc, ppc, polled, sleep, mutex, passed, good>>
  /\ UNCHANGED <<tcVars, cacheVars, devVars>>

\* threadSafeString.Read: the length word of tss.value is read
ReadLen(r) ==
  /\ mainpc = "serving"
  /\ rd[r] = "len"
  /\ got' = [got EXCEPT ![r].len = storeLen]
  /\ rd' = [rd EXCEPT ![r] = "RUnlock"]
  /\ UNCHANGED <<store, storeLen, mode, mainpc, ppc, polled, sleep, mutex, passed, good>>
  /\ UNCHANGED <<tcVars, cacheVars, devVars>>

\* threadSafeString.Read returns (the deferred RUnlock)
ReadRUnlock(r) ==
  /\ mainpc = "serving"
  /\ rd[r] = "RUnlock"
  /\ mutex' = [mutex EXCEPT !.r = @ \ {r}]
  /\ got' = [got EXCEPT ![r].value = Words(got[r].data, got[r].len),
                        ![r].returned = TRUE]
  /\ rd' = [rd EXCEPT ![r] = "idle"]
  /\ UNCHANGED <<store, storeLen, mode, mainpc, ppc, polled, sleep, passed, good>>
  /\ UNCHANGED <<tcVars, cacheVars, devVars>>

\* the steps of a Read that holds the mutex
ReaderStep(r) == ReadData(r) \/ ReadLen(r) \/ ReadRUnlock(r)

NextPoller ==
  \/ MainStart
  \/ MainListen
  \/ PollFetch
  \/ PollLock
  \/ PollLocked
  \/ PollAssign
  \/ PollAssignLen
  \/ PollUnlock
  \/ PollWake
  \/ \E r \in Reqs : ReadFixed(r)
  \/ \E r \in Reqs : ReadCall(r)
  \/ \E r \in Reqs : ReadRLock(r)
  \/ \E r \in Reqs : ReadData(r)
  \/ \E r \in Reqs : ReadLen(r)
  \/ \E r \in Reqs : ReadRUnlock(r)

SpecPoller == InitPoller /\ [][NextPoller]_vars

\* the Go scheduler runs every goroutine that can run: the refresh goroutine,
\* and a reader that holds the mutex
SpecPollerFair ==
  /\ SpecPoller
  /\ WF_vars(PollerStep)
  /\ \A r \in Reqs : WF_vars(ReaderStep(r))

\* the steps of threadSafeString.Write once Lock was called: none of them
\* waits for anything but the readers that hold the mutex
WriteStep == PollLocked \/ PollAssign \/ PollAssignLen \/ PollUnlock

\* the scheduler runs a Write that can go on and a reader that holds the
\* mutex; a reader that waits in RLock gets the mutex when it is free again
\* and again (sync.RWMutex lets the waiting readers in when the writer
\* unlocks).  Nothing is assumed of the fetch, of the sleep or of the call
\* of Write: the origin may answer late or never.
SpecReadFair ==
  /\ SpecPoller
  /\ WF_vars(WriteStep)
  /\ \A r \in Reqs : WF_vars(ReaderStep(r))
  /\ \A r \in Reqs : SF_vars(ReadRLock(r))

(***************************************************************************)
(* Path vocabulary of the properties.                                      *)
(***************************************************************************)
\* the elements of a path between its separators, empty ones included
RECURSIVE Split(_)
Split(p) ==
  IF p = <<>> THEN << <<>> >>
  ELSE LET rest == Split(Tail(p))
       IN  IF Head(p) = Slash THEN << <<>> >> \o rest
           ELSE << <<Head(p)>> \o rest[1] >> \o Tail(rest)

\* seg is one of the elements of p: it starts at some i, after a separator
\* or at the start, and ends before a separator or at the end
HasSegment(p, seg) ==
  \E i \in 1..(Len(p) + 1) :
     /\ i = 1 \/ p[i - 1] = Slash
     /\ i + Len(seg) - 1 <= Len(p)
     /\ SubSeq(p, i, i + Len(seg) - 1) = seg
     /\ i + Len(seg) > Len(p) \/ p[i + Len(seg)] = Slash

LastElem(p) == LET sp == Split(p) IN sp[Len(sp)]

HasDot(s) == \E i \in 1..Len(s) : s[i] = Dot

\* rooted, no empty, "." or ".." element, no trailing separator
RootedClean(p) ==
  /\ p # <<>> /\ p[1] = Slash
  /\ ~HasSegment(p, <<Dot>>) /\ ~HasSegment(p, <<Dot, Dot>>)
  /\ p = <<Slash>> \/ ~HasSegment(Tail(p), <<>>)

\* some ".." of the path has no element before it left to cancel
RECURSIVE ClimbsFrom(_, _)
ClimbsFrom(segs, depth) ==
  IF segs = <<>> THEN FALSE
  ELSE IF Head(segs) = <<>> \/ Head(segs) = <<Dot>> THEN ClimbsFrom(Tail(segs), depth)
  ELSE IF Head(segs) = <<Dot, Dot>>
       THEN depth = 0 \/ ClimbsFrom(Tail(segs), depth - 1)
  ELSE ClimbsFrom(Tail(segs), depth + 1)

Climbs(p) == ClimbsFrom(Split(p), 0)

\* the file `full` is the directory dir or lies below it
Inside(dir, full) ==
  /\ ~HasSegment(full, <<Dot, Dot>>)
  /\ IF dir = <<>> THEN full # <<>> /\ full[1] # Slash
     ELSE full = dir \/ IsPrefix(dir \o <<Slash>>, full)

\* the version the test case asks for, by the documented precedence
TcVersion ==
  IF tcQuery # <<>> THEN tcQuery
  ELSE IF tcCookie # <<>> THEN tcCookie[1]
  ELSE tcDefault

\* the cleaned request path as it follows a version element
TcCleanTail == IF Clean(tcPath) = <<Slash>> THEN <<>> ELSE Clean(tcPath)

(***************************************************************************)
(* Properties of the middlewares.                                          *)
(***************************************************************************)
\* C2: the resolved version is the query parameter when it is not empty,
\* else the request cookie's value when there is one, else the store's
\* value; the path is prefixed with it, and with both query and cookie
\* present the cookie sent back carries the query value.
C2_VersionPrecedence ==
  tcStage = "next" =>
    /\ tcOut.version = TcVersion
    /\ tcOut.path = Clean(<<Slash>> \o Join(PathEscape(TcVersion), tcPath))
    /\ (tcQuery # <<>> /\ tcCookie # <<>>) => tcOut.setCookie = <<tcQuery>>

\* C3: the effective path is rooted and clean, without a ".." element, and
\* the file opened or created for it lies in the cache directory, for every
\* cache directory.
C3_KeyContained ==
  tcStage = "next" =>
    /\ RootedClean(tcOut.path)
    /\ LET key == Clean(tcOut.path)
       IN  \A d \in CacheDirs :
             /\ Inside(d, OpenName(d, key))
             /\ Inside(d, CreateName(d, key))

C3_Witness ==
  /\ tcStage = "next"
  /\ tcQuery = <<Dot, Dot>>
  /\ tcPath = <<Slash, Dot, Dot>>
  /\ tcOut.path = <<Slash>>

\* C4 as claimed: for every version and every request path the effective
\* path is the escaped version followed by the (normalized) request path.
C4_LayoutEveryVersion ==
  tcStage = "next" =>
    tcOut.path = <<Slash>> \o PathEscape(TcVersion) \o TcCleanTail

\* C4 as amended: the effective path is the escaped version followed by the
\* normalized request path whenever the escaped version is not empty, "."
\* or ".." and the request path does not climb above its root.
C4_Layout ==
  (/\ tcStage = "next"
   /\ PathEscape(TcVersion) \notin {<<>>, <<Dot>>, <<Dot, Dot>>}
   /\ ~Climbs(tcPath))
  => tcOut.path = <<Slash>> \o PathEscape(TcVersion) \o TcCleanTail

C4_Witness ==
  /\ tcStage = "next"
  /\ tcQuery = <<"a", Slash>>
  /\ tcPath = <<Slash, "a", Dot, "a">>
  /\ tcOut.path = <<Slash, "a", "%", "2", "F", Slash, "a", Dot, "a">>

\* C5: with version=.. in the query the request is served, the effective
\* path is the normalized request path without any prefix (the request path
\* itself when it is clean), and the cookie carries "..".
C5_ParentCollapses ==
  (tcStage = "next" /\ tcQuery = <<Dot, Dot>>) =>
    /\ tcOut.path = Clean(tcPath)
    /\ RootedClean(tcPath) => tcOut.path = tcPath
    /\ tcOut.setCookie = << <<Dot, Dot>> >>

C5_Witness ==
  /\ tcStage = "next"
  /\ tcQuery = <<Dot, Dot>>
  /\ tcPath = <<Slash, "a", Dot, "a">>
  /\ tcOut.path = tcPath
  /\ tcOut.setCookie = << <<Dot, Dot>> >>

\* C6: AppRewrite passes /index.html downstream when the final element of
\* the path has no dot, and the request path itself when it has one.
C6_AppRewrite ==
  tcStage = "next" =>
    tcOut.path = IF HasDot(LastElem(tcPath)) THEN tcPath ELSE IndexHtml

C6_Witness ==
  /\ tcStage = "next"
  /\ tcPath = <<Slash, "a", Dot, "a", Slash>>
  /\ tcOut.path = IndexHtml

\* C7: when the version comes from the query or from a cookie, the response
\* carries exactly one version-override cookie whose value is the resolved
\* version, and Cache-Control: no-store.
C7_CookieAndNoStore ==
  (tcStage = "next" /\ (tcQuery # <<>> \/ tcCookie # <<>>)) =>
    /\ tcOut.setCookie = <<TcVersion>>
    /\ tcOut.cacheControl = <<NoStore>>

\* C8: with neither a query version nor a cookie the version is the store's
\* value, no cookie is set and Cache-Control is not set.
C8_Fallback ==
  (tcStage = "next" /\ tcQuery = <<>> /\ tcCookie = <<>>) =>
    /\ tcOut.version = tcDefault
    /\ tcOut.path = Clean(<<Slash>> \o Join(PathEscape(tcDefault), tcPath))
    /\ tcOut.setCookie = <<>>
    /\ tcOut.cacheControl = <<>>

C8_Witness ==
  /\ tcStage = "next"
  /\ tcQuery = <<>> /\ tcCookie = <<>>
  /\ tcDefault = <<"b">>
  /\ tcPath = <<Slash, "a", Dot, "a">>
  /\ tcOut.path = <<Slash, "b", Slash, "a", Dot, "a">>
  /\ tcOut.setCookie = <<>>

(***************************************************************************)
(* main with DEV_PATHS: ProxyPaths in front of the chain.                  *)
(***************************************************************************)
\* http.StatusBadGateway
StatusBadGateway == 502

\* targets of the records: two URLs, and one that url.Parse rejects
TargetOne == <<"s", ":", "1">>
TargetTwo == <<"s", ":", "2">>
TargetBad == <<":", "x">>

\* url.Parse: a colon in front of any scheme is "missing protocol scheme"
UrlParse(t) == [ok |-> ~(t # <<>> /\ t[1] = ":"), url |-> t]

DevConfig(prefix, target) == [prefix |-> prefix, target |-> target]

\* contents of the DEV_PATHS file
DevConfigSets ==
  { << DevConfig(<<Slash, "d">>, TargetOne) >>,
    << DevConfig(<<Slash, "d", "d">>, TargetTwo), DevConfig(<<Slash, "d">>, TargetOne) >>,
    << DevConfig(<<Slash, "d">>, TargetOne), DevConfig(<<Slash, "d", "d">>, TargetTwo) >>,
    << DevConfig(<<Slash, "d">>, TargetBad), DevConfig(<<Slash, "d">>, TargetOne) >>,
    << DevConfig(<<>>, TargetTwo) >> }

\* requests the server receives
DevRequests ==
  { [path |-> <<Slash, "d", "d">>, query |-> <<>>, cookie |-> <<>>],
    [path |-> <<Slash, "d">>, query |-> <<"b">>, cookie |-> <<>>],
    [path |-> <<Slash, "a", Dot, "a">>, query |-> <<>>, cookie |-> <<>>],
    [path |-> <<Slash>>, query |-> <<"b">>, cookie |-> <<>>] }

\* what doProxy meets: the request body cannot be read, the upstream cannot
\* be reached, or it answers and the copy of its body succeeds or fails
UpstreamOutcomes ==
  { [kind |-> "readBody", status |-> 0, header |-> "", body |-> <<>>],
    [kind |-> "do", status |-> 0, header |-> "", body |-> <<>>],
    [kind |-> "response", status |-> 200, header |-> "u1", body |-> <<"p">>],
    [kind |-> "response", status |-> 404, header |-> "u2", body |-> <<>>],
    [kind |-> "copy", status |-> 200, header |-> "u1", body |-> <<"p">>] }

\* a loop gone wrong: the last record that matches wins
RECURSIVE LastMatch(_, _, _)
LastMatch(configs, i, requestPath) ==
  IF i > Len(configs) THEN 0
  ELSE LET later == LastMatch(configs, i + 1, requestPath) IN
       IF later # 0 THEN later
       ELSE IF IsPrefix(configs[i].prefix, requestPath) THEN i ELSE 0

\* the loop of ProxyPaths from record i on: the index of the first record
\* whose prefix the path has, 0 when there is none
RECURSIVE FirstMatch(_, _, _)
FirstMatch(configs, i, requestPath) ==
  IF i > Len(configs) THEN 0
  ELSE IF IsPrefix(configs[i].prefix, requestPath) THEN i
  ELSE FirstMatch(configs, i + 1, requestPath)

\* doProxy: the error it returns ("" for nil)
doProxyErr(outcome) == IF outcome.kind = "response" THEN "" ELSE outcome.kind

\* doProxy: the response writer afterwards
doProxy(w, outcome) ==
  IF outcome.kind \in {"response", "copy"}
  THEN [WriteHeader(w, outcome.status) EXCEPT
          !.header = @ \o << [name |-> outcome.header, length |-> Len(outcome.body)] >>,
          !.body = IF outcome.kind = "response" THEN @ \o outcome.body ELSE @]
  ELSE w

InitDev ==
  /\ TcIdle
  /\ store = <<"a">>
  /\ SrvInit
  /\ PollIdle
  /\ devConfigs \in DevConfigSets
  /\ dev = [r \in Reqs |-> NoDev]

\* the server accepts a request; the requests come one after the other
DevRequest(r) ==
  /\ pc[r] = "idle"
  /\ \A q \in Reqs : q < r => pc[q] = "done"
  /\ \E in \in DevRequests :
       req' = [req EXCEPT ![r] = [path |-> in.path, query |-> in.query,
                                  cookie |-> in.cookie, orig |-> in.path]]
  /\ pc' = [pc EXCEPT ![r] = "ProxyPaths"]
  /\ UNCHANGED <<store, files, dirs, rw, res, off, obs>>
  /\ UNCHANGED <<tcVars, storeLen, pollVars, devVars>>

\* the handler of ProxyPaths up to doProxy
ProxyPaths(r) ==
  /\ pc[r] = "ProxyPaths"
  /\ LET requestPath == req[r].path
         i == FirstMatch(devConfigs, 1, requestPath)
     IN  IF i = 0
         THEN /\ pc' = [pc EXCEPT ![r] = Chain[1]]
              /\ dev' = [dev EXCEPT ![r].next = TRUE]
              /\ UNCHANGED rw
         ELSE IF ~UrlParse(devConfigs[i].target).ok
         THEN /\ rw' = [rw EXCEPT ![r] = doError(@)]
              /\ dev' = [dev EXCEPT ![r].rec = i, ![r].err = "parse"]
              /\ pc' = [pc EXCEPT ![r] = "done"]
         ELSE /\ dev' = [dev EXCEPT ![r].rec = i]
              /\ pc' = [pc EXCEPT ![r] = "doProxy"]
              /\ UNCHANGED rw
  /\ UNCHANGED <<store, files, dirs, req, res, off, obs, devConfigs>>
  /\ UNCHANGED <<tcVars, storeLen, pollVars>>

\* doProxy, and the WriteHeader of ProxyPaths when it returns an error
DoProxy(r) ==
  /\ pc[r] = "doProxy"
  /\ \E outcome \in UpstreamOutcomes :
       LET urlOut == [target |-> UrlParse(devConfigs[dev[r].rec].target).url,
                      path |-> req[r].path, query |-> req[r].query]
           w == doProxy(rw[r], outcome)
       IN  /\ rw' = [rw EXCEPT ![r] =
                       IF doProxyErr(outcome) # ""
                       THEN WriteHeader(w, StatusBadGateway) ELSE w]
           /\ dev' = [dev EXCEPT ![r].err = doProxyErr(outcome),
                                 ![r].sent = IF outcome.kind = "readBody"
                                             THEN <<>> ELSE <<urlOut>>]
  /\ pc' = [pc EXCEPT ![r] = "done"]
  /\ UNCHANGED <<store, files, dirs, req, res, off, obs, devConfigs>>
  /\ UNCHANGED <<tcVars, storeLen, pollVars>>

NextDev ==
  \/ \E r \in Reqs : DevRequest(r)
  \/ \E r \in Reqs : ProxyPaths(r)
  \/ \E r \in Reqs : DoProxy(r)
  \/ \E r \in Reqs : AppRewrite(r)
  \/ \E r \in Reqs : VersionSwitch(r)
  \/ \E r \in Reqs : ServeHTTP(r)
  \/ \E r \in Reqs : ClientGet(r)
  \/ \E r \in Reqs : Create(r)
  \/ \E r \in Reqs : Write(r)
  \/ \E r \in Reqs : Retry(r)

SpecDev == InitDev /\ [][NextDev]_vars

(***************************************************************************)
(* Properties of the cache.                                                *)
(***************************************************************************)
\* the file of a request that has made its first lookup
ReqName(q) == CreateName(CacheDir, req[q].path)

\* the requests that made their first lookup
Looked == {q \in Reqs : obs[q].first # ""}

\* the requests that created or truncated the file `name`
Creators(name) == {q \in Looked : obs[q].created /\ ReqName(q) = name}

\* the stored response as a hit replays it
Replays(w, o) ==
  /\ w.status = o.status
  /\ w.header = << [name |-> o.header, length |-> Len(o.body)] >>
  /\ w.body = o.body

\* C1: a request that finds nothing under its key is a miss and makes
\* exactly one origin fetch; when its fill completed, with no other request
\* filling the same key meanwhile, every later request for the key is a hit,
\* makes no origin fetch and replays the status, headers and body of the
\* origin response that was stored.
C1_SequentialHitMiss ==
  /\ \A r \in Reqs :
       obs[r].first = "notexist" =>
         /\ rw[r].xcache = <<"miss">>
         /\ obs[r].fetches = IF pc[r] = "doCacheFetch" THEN 0 ELSE 1
  /\ \A r1 \in Looked, r2 \in Looked :
       (/\ pc[r2] = "done"
        /\ r1 \in obs[r2].after
        /\ ReqName(r1) = ReqName(r2)
        /\ obs[r1].first = "notexist"
        /\ obs[r1].filled
        /\ ~obs[r1].overlap)
       => /\ rw[r2].xcache = <<"hit">>
          /\ obs[r2].fetches = 0
          /\ Replays(rw[r2], res[r1])

C1_Witness ==
  /\ pc[1] = "done" /\ pc[2] = "done"
  /\ 1 \in obs[2].after
  /\ ReqName(1) = ReqName(2)
  /\ obs[1].first = "notexist" /\ obs[1].filled /\ obs[1].fetches = 1
  /\ rw[1].xcache = <<"miss">>
  /\ rw[2].xcache = <<"hit">> /\ obs[2].fetches = 0
  /\ rw[2].status = 200 /\ rw[2].body = <<"y", "z">>

\* the requests between their miss and the end of their fill of `name`,
\* in the state with the program counters pcs and the requests reqs
FillingIn(pcs, reqs, name) ==
  {q \in Reqs : pcs[q] \in {"doCacheFetch", "Create", "Write"}
                /\ CreateName(CacheDir, reqs[q].path) = name}

\* C9 as claimed: once an entry is created, no later operation modifies,
\* truncates or removes its bytes (bytes are only ever added after them).
C9_NeverModified ==
  [][\A name \in DOMAIN files :
       name \in DOMAIN files' /\ IsPrefix(files[name], files'[name])]_vars

\* C9 as amended: an entry is never removed; its bytes change only in a
\* step of a request that found nothing under the key and is creating or
\* writing it; and once an entry exists and no such fill is in flight, no
\* step changes it and no later request starts a fill of it.
C9_OnlyOverlappingFillsModify ==
  [][\A name \in DOMAIN files :
       /\ name \in DOMAIN files'
       /\ files'[name] # files[name] =>
            \E q \in FillingIn(pc, req, name) :
               obs[q].first = "notexist" /\ pc[q] \in {"Create", "Write"}
       /\ FillingIn(pc, req, name) = {} =>
            /\ files'[name] = files[name]
            /\ FillingIn(pc', req', name) = {}]_vars

C9_Witness ==
  \E name \in DOMAIN files :
    /\ FillingIn(pc, req, name) = {}
    /\ \E q \in Creators(name) : obs[q].filled /\ pc[q] = "done"
    /\ \E q \in Looked :
         ReqName(q) = name /\ pc[q] = "done" /\ obs[q].first = "file"

\* C10 as claimed: once two concurrent fills of the same key have both
\* completed, the entry is exactly the serialized response of the request
\* whose write finished last.
C10_LastFinisherWins ==
  \A r1 \in Looked, r2 \in Looked :
    (/\ r1 # r2
     /\ ReqName(r1) = ReqName(r2)
     /\ Creators(ReqName(r1)) = {r1, r2}
     /\ obs[r1].filled /\ obs[r2].filled
     /\ r1 \in obs[r2].filledAfter)
    => files[ReqName(r2)] = Serialize(res[r2])

\* C10 as amended: once every request that created or truncated the entry
\* has completed its fill, and all of them wrote the same response, the entry
\* is exactly that serialized response.
C10_SameResponseWins ==
  \A name \in DOMAIN files :
    (/\ \A q \in Creators(name) : obs[q].filled
     /\ \A q1 \in Creators(name), q2 \in Creators(name) : res[q1] = res[q2])
    => \A q \in Creators(name) : files[name] = Serialize(res[q])

C10_Witness ==
  /\ ReqName(1) = ReqName(2)
  /\ Creators(ReqName(1)) = {1, 2}
  /\ obs[1].first = "notexist" /\ obs[2].first = "notexist"
  /\ obs[1].fetches = 1 /\ obs[2].fetches = 1
  /\ obs[1].filled /\ obs[2].filled
  /\ res[1] = res[2]
  /\ files[ReqName(1)] = Serialize(res[2])

\* the requests that were answered
Done == {q \in Reqs : pc[q] = "done"}

\* C11: every request of the cache pipeline that ended in an error (a lookup
\* that failed otherwise than by not-found, a malformed entry, a failed origin
\* fetch, a failed create or write, a stored body that ended early) was
\* answered with status 500; doError writes nothing in the body.
C11_ErrorsGive500 ==
  \A r \in Done : obs[r].err # "" => rw[r].status = 500

\* the file `name`, or a directory above it, was created by a request other
\* than r1 and r2
TouchedByOthers(name, r1, r2) ==
  \E q \in Looked \ {r1, r2} :
     /\ obs[q].created
     /\ \/ ReqName(q) = name
        \/ name \in DirChain(FilepathDir(ReqName(q)))

\* C12: a step in which the outbound GET of a miss fails ends the request
\* with an error (status 500) and leaves every file and directory of the
\* cache as it was; a later request for the same key, the key untouched by
\* other requests, finds nothing again and makes its own origin fetch.
C12_FailedFetchLeavesCache ==
  /\ [][\A r \in Reqs :
          (pc[r] = "doCacheFetch" /\ pc'[r] = "done") =>
             /\ files' = files /\ dirs' = dirs
             /\ obs'[r].err = "fetch" /\ rw'[r].status = 500
             /\ ~obs'[r].created]_vars
  /\ [](\A r1 \in Looked, r2 \in Looked :
          (/\ obs[r1].err = "fetch"
           /\ r1 \in obs[r2].after
           /\ ReqName(r1) = ReqName(r2)
           /\ ~TouchedByOthers(ReqName(r2), r1, r2))
          => /\ obs[r2].first = "notexist"
             /\ pc[r2] # "doCacheFetch" => obs[r2].fetches = 1)

C12_Witness ==
  /\ obs[1].err = "fetch" /\ pc[1] = "done" /\ rw[1].status = 500
  /\ 1 \in obs[2].after
  /\ ReqName(1) = ReqName(2)
  /\ obs[2].first = "notexist" /\ obs[2].fetches = 1
  /\ pc[2] = "done" /\ rw[2].status = 200
  /\ files = (ReqName(2) :> Serialize(res[2]))

\* C13: an entry that exists keeps existing after every step, and every
\* request whose lookup found the entry was answered from the file, with no
\* origin fetch, whatever requests and refreshes of the default version
\* happened since the entry was written.
C13_NoEviction ==
  [][/\ \A name \in DOMAIN files : name \in DOMAIN files'
     /\ \A r \in Reqs :
          obs'[r].first = "file" =>
             /\ obs'[r].fetches = 0
             /\ pc'[r] = "done"
             /\ rw'[r].xcache = <<"hit">>]_vars

C13_Witness ==
  \E r1 \in Done, r2 \in Done :
    /\ obs[r1].first = "notexist" /\ obs[r1].filled
    /\ req[r1].query = <<>> /\ obs[r1].version # store
    /\ r1 \in obs[r2].after
    /\ ReqName(r1) = ReqName(r2)
    /\ obs[r2].first = "file" /\ obs[r2].fetches = 0
    /\ files[ReqName(r2)] = Serialize(res[r1])

\* C20: from the first lookup on, X-Cache is miss exactly when that lookup
\* reported not-found, which is exactly when an origin fetch is attempted,
\* and hit otherwise; a request answered 500 for a malformed entry carries
\* hit, and a request whose fetch failed carries miss.
C20_XCache ==
  \A r \in Looked :
    /\ rw[r].xcache = IF obs[r].first = "notexist" THEN <<"miss">> ELSE <<"hit">>
    /\ (obs[r].fetches > 0 \/ pc[r] = "doCacheFetch") <=> rw[r].xcache = <<"miss">>
    /\ (pc[r] = "done" /\ obs[r].first = "file" /\ obs[r].err = "malformed")
         => rw[r].xcache = <<"hit">> /\ rw[r].status = 500
    /\ obs[r].err = "fetch" => rw[r].xcache = <<"miss">> /\ rw[r].status = 500

C20_Witness ==
  /\ pc[1] = "done" /\ obs[1].err = "write" /\ rw[1].xcache = <<"miss">>
  /\ obs[1].fetches = 1
  /\ pc[2] = "done" /\ obs[2].first = "file" /\ obs[2].err = "malformed"
  /\ obs[2].fetches = 0
  /\ rw[2].xcache = <<"hit">> /\ rw[2].status = 500

(***************************************************************************)
(* Properties of the default version.                                      *)
(***************************************************************************)
\* the whole strings the store was built with or that were passed to Write
PassedWhole == {Whole(v) : v \in passed}

\* the readers between RLock and RUnlock, the writer between Lock and Unlock
InRead == {r \in Reqs : rd[r] \in {"data", "len", "RUnlock"}}
InWrite == ppc \in {"locked", "assignLen", "Unlock"}

\* C14: every Read returns a whole string, the one the store was built with
\* or one passed to a Write; while a Write is between Lock and Unlock no Read
\* is between RLock and RUnlock, and the words of the string differ from a
\* whole string only inside a Write; several Reads may be between RLock and
\* RUnlock together.
C14_StoreAtomic ==
  /\ \A r \in Reqs : got[r].returned => got[r].value \in PassedWhole
  /\ InWrite <=> mutex.w
  /\ InRead = mutex.r
  /\ mutex.w => mutex.r = {}
  /\ storeLen # Len(store) => InWrite

C14_Witness ==
  /\ mutex.r = {1, 2}
  /\ ppc = "Lock"
  /\ Cardinality(passed) = 2
  /\ got[1].returned /\ got[1].value = Whole(<<"b", "b">>)
  /\ Words(store, storeLen) = Whole(<<"b", "b">>)
  /\ polled.version = <<"a">>

\* C15: the words of the stored string change only inside a Write of the
\* version of a poll that returned 200 (and when the store is built from the
\* first fetch); outside a Write the stored string is the trimmed body of the
\* latest poll that returned 200, that poll's Write still to come at most;
\* a poll that fails changes nothing and leads to no Write.
C15_RefreshOnlyOnSuccess ==
  /\ [][(store' # store \/ storeLen' # storeLen) =>
          \/ mainpc = "start" /\ polled'.err = ""
                /\ Words(store', storeLen') = Whole(good')
          \/ /\ InWrite /\ polled.err = "" /\ polled.version = good
             /\ store' = good]_vars
  /\ [][(ppc = "fetch" /\ ppc' # "fetch" /\ polled'.err # "") =>
          /\ store' = store /\ storeLen' = storeLen /\ good' = good
          /\ ppc' = "sleep"]_vars
  /\ []((mode = "poll" /\ passed # {}) =>
          /\ ppc \in {"Write", "Lock", "locked"} =>
               polled.err = "" /\ polled.version = good
          /\ ppc \in {"assignLen", "Unlock"} => store = good
          /\ ppc \in {"fetch", "sleep", "Unlock"} =>
               Words(store, storeLen) = Whole(good))

C15_Witness ==
  /\ ppc = "sleep" /\ sleep = BackoffSeconds
  /\ polled.err = "status"
  /\ mainpc = "serving"
  /\ Cardinality(passed) = 2
  /\ good = <<"a">>
  /\ Words(store, storeLen) = Whole(<<"a">>)

\* C16: the refresh goroutine, once started, never ends; a failed poll goes
\* to the five-second wait and a successful one, after its Write, to the
\* one-minute wait; every wait ends with a poll; and as long as the process
\* runs every wait is followed by a poll and every poll by a wait.
C16_LoopNeverEnds ==
  /\ [][ppc # "none" => ppc' # "none"]_vars
  /\ [][(ppc = "fetch" /\ ppc' # "fetch") =>
          IF polled'.err # ""
          THEN ppc' = "sleep" /\ sleep' = BackoffSeconds
          ELSE ppc' = "Write"]_vars
  /\ [][(ppc # "sleep" /\ ppc' = "sleep" /\ polled'.err = "") =>
          sleep' = IntervalSeconds]_vars
  /\ [][(ppc = "sleep" /\ ppc' # "sleep") => ppc' = "fetch"]_vars
  /\ (Polling /\ ppc = "sleep") ~> (ppc = "fetch" \/ mainpc = "fatal")
  /\ (Polling /\ ppc = "fetch") ~> (ppc = "sleep" \/ mainpc = "fatal")

C16_Witness ==
  /\ mainpc = "serving"
  /\ ppc = "fetch"
  /\ polled.err = "transport"
  /\ Cardinality(passed) = 2

\* C17: in polling mode a first fetch that fails ends main in log.Fatalf:
\* no store was built, the refresh goroutine was not started, and from then
\* on nothing happens: no poll, no read of the default version, no request.
C17_StartupFailureFatal ==
  /\ [][(mainpc = "start" /\ mode = "poll" /\ polled'.err # "") =>
          mainpc' = "fatal" /\ ppc' = "none" /\ passed' = {}]_vars
  /\ []((mainpc = "fatal" /\ passed = {}) =>
          /\ ppc = "none" /\ store = <<>>
          /\ \A r \in Reqs :
               ~got[r].returned /\ rd[r] = "idle" /\ pc[r] = "idle")
  /\ [][mainpc = "fatal" => FALSE]_vars

C17_Witness ==
  /\ mode = "poll"
  /\ mainpc = "fatal"
  /\ polled.err = "status"
  /\ passed = {}
  /\ ppc = "none"

(***************************************************************************)
(* Properties of the dev proxy.                                            *)
(***************************************************************************)
\* the records whose prefix the path starts with
Matching(requestPath) ==
  {i \in 1..Len(devConfigs) : IsPrefix(devConfigs[i].prefix, requestPath)}

\* the requests ProxyPaths has handled
PastProxyPaths == {r \in Reqs : pc[r] \notin {"idle", "ProxyPaths"}}

\* C18: a request whose path starts with a configured prefix is handled by
\* the first record that matches, in the order of the file: what is sent
\* upstream goes to that record's target with the request's path and query,
\* and the request never reaches AppRewrite, VersionSwitch or the cache (path
\* as received, no cookie, no Cache-Control, no X-Cache, no lookup, no fetch,
\* no fill, files and directories as they were); a request that matches no
\* prefix is handed to the next handler as it was received.
C18_DevPathBypass ==
  /\ [](\A r \in PastProxyPaths :
          IF Matching(req[r].orig) # {}
          THEN /\ dev[r].rec \in Matching(req[r].orig)
               /\ \A i \in Matching(req[r].orig) : dev[r].rec <= i
               /\ ~dev[r].next
               /\ pc[r] \in {"doProxy", "done"}
               /\ \A u \in {dev[r].sent[k] : k \in 1..Len(dev[r].sent)} :
                    /\ u.target = devConfigs[dev[r].rec].target
                    /\ u.path = req[r].orig /\ u.query = req[r].query
               /\ (pc[r] = "done" /\ dev[r].err \in {"", "copy", "do"}) =>
                    Len(dev[r].sent) = 1
               /\ req[r].path = req[r].orig
               /\ rw[r].setCookie = <<>> /\ rw[r].cacheControl = <<>>
               /\ rw[r].xcache = <<>>
               /\ obs[r] = NoObs /\ res[r] = NoRes
          ELSE dev[r].next /\ dev[r].rec = 0 /\ dev[r].sent = <<>>)
  /\ [][\A r \in Reqs :
          /\ (pc[r] \in {"ProxyPaths", "doProxy"} /\ pc'[r] # pc[r]) =>
                files' = files /\ dirs' = dirs /\ store' = store
          /\ (pc[r] = "ProxyPaths" /\ pc'[r] = "AppRewrite") =>
                req'[r] = req[r] /\ rw'[r] = NewResponseWriter]_vars

C18_Witness ==
  /\ Len(devConfigs) = 2
  /\ pc[1] = "done" /\ dev[1].next /\ obs[1].filled
  /\ files # << >>
  /\ pc[2] = "done" /\ Matching(req[2].orig) = {1, 2}
  /\ dev[2].rec = 1 /\ Len(dev[2].sent) = 1 /\ dev[2].err = ""
  /\ dev[2].sent[1].target = TargetTwo
  /\ rw[2].status = 200 /\ rw[2].body = <<"p">>

\* C19: every dev-path forwarding error, an unparsable target as well as an
\* upstream failure, is answered with status 502.
C19_ForwardErrors502 ==
  \A r \in Reqs :
    (pc[r] = "done" /\ dev[r].err # "") => rw[r].status = StatusBadGateway

\* ---------------------------------------------------------------------------
\* Stored entries that are not a complete response

\* C21: a request whose lookup found an entry that cannot be read as a
\* complete response (no header block yet, or a body shorter than the length
\* the headers declare) is answered with status 500 and makes no origin
\* fetch.
C21_MalformedIsHardError ==
  \A r \in Done :
     (obs[r].first = "file" /\ obs[r].err \in {"malformed", "stream"})
        => /\ rw[r].status = 500
           /\ obs[r].fetches = 0

\* ---------------------------------------------------------------------------
\* Work done for one request

\* C22: a request makes at most two lookups and at most one origin fetch; the
\* fetch comes after a first lookup that found nothing, the second lookup
\* comes after a fetch that filled the entry, and nothing follows the second
\* lookup; a request whose fetch, create or write failed ends with one lookup
\* and one fetch, in status 500; a request that was answered stays answered,
\* and every request that was received is eventually answered.
C22_BoundedWork ==
  /\ [](\A r \in Reqs :
          /\ obs[r].lookups <= 2 /\ obs[r].fetches <= 1
          /\ obs[r].fetches = 1 => (obs[r].first = "notexist" /\ obs[r].lookups >= 1)
          /\ obs[r].lookups = 2 => (obs[r].filled /\ obs[r].fetches = 1 /\ pc[r] = "done")
          /\ pc[r] = "done" =>
                /\ rw[r].status # 0
                /\ obs[r].first # "notexist" =>
                      (obs[r].lookups = 1 /\ obs[r].fetches = 0)
                /\ obs[r].first = "notexist" =>
                      /\ obs[r].fetches = 1
                      /\ obs[r].filled <=> obs[r].lookups = 2
                      /\ ~obs[r].filled <=>
                            (obs[r].lookups = 1 /\ rw[r].status = 500
                             /\ obs[r].err \in {"fetch", "create", "write"}))
  /\ [][\A r \in Reqs :
          /\ obs'[r].lookups \in {obs[r].lookups, obs[r].lookups + 1}
          /\ obs'[r].fetches \in {obs[r].fetches, obs[r].fetches + 1}
          /\ pc[r] = "done" =>
                (pc'[r] = "done" /\ rw'[r] = rw[r] /\ obs'[r].lookups = obs[r].lookups
                 /\ obs'[r].fetches = obs[r].fetches)]_vars
  /\ \A r \in Reqs : (pc[r] # "idle") ~> (pc[r] = "done")

\* request 1 missed, fetched and was served by its one retry; request 2
\* missed too and its retry failed on the entry that request 1 was writing
\* again: one fetch and two lookups each
C22_Witness ==
  /\ Done = Reqs
  /\ \A r \in Reqs : obs[r].lookups = 2 /\ obs[r].fetches = 1
  /\ obs[1].err = "" /\ rw[1].status = 200
  /\ obs[2].err # "" /\ rw[2].status = 500

\* ---------------------------------------------------------------------------
\* The key of a request

\* the keys of the requests the server receives, under every version a
\* request can resolve
SrvKeys ==
  UNION {{NewPath(v, AppRewritePath(q.path)) : v \in SrvVersions \cup {q.query}} :
           q \in SrvRequests}

\* the file a lookup opens is the file a fill creates, for every cleaned path
\* and every cache directory, the unset one included; a key is a cleaned path
SameNameEveryRoot ==
  /\ \A k \in SrvKeys : k = Clean(k)
  /\ \A dir \in CacheDirs :
        \A k \in SrvKeys \cup {Clean(p) : p \in RootedPaths(MaxPathLen)} :
           OpenName(dir, k) = CreateName(dir, k)

\* C23: a request reads the default-version store at most once; from its
\* first lookup on its path is one cleaned key, built from the version it
\* resolved then, whatever the store holds later; every file it opens, every
\* file it creates and every URL it fetches is named by that key: the fetch
\* path is the origin's base path followed by the key, and the file created
\* is the file both lookups open; under every cache directory the two
\* names of a key are the same.
C23_OneKey ==
  /\ SameNameEveryRoot
  /\ \A r \in Reqs :
        /\ obs[r].reads <= 1
        /\ obs[r].reads = 1 <=>
              (obs[r].version # <<>> /\ req[r].query = <<>> /\ req[r].cookie = <<>>)
        /\ r \in Looked =>
              LET key == req[r].path IN
              /\ key \in SrvKeys
              /\ key = NewPath(obs[r].version, AppRewritePath(req[r].orig))
              /\ obs[r].opened = {OpenName(CacheDir, key)}
              /\ obs[r].createdAt \subseteq obs[r].opened
              /\ obs[r].fetched \subseteq {SourcePath \o key}
              /\ obs[r].fetches = 1 => obs[r].fetched # {}
              /\ obs[r].created => obs[r].createdAt = obs[r].opened

\* a request resolved the default version, the store was refreshed to another
\* value while it was being served, and it fetched, filled and replayed the
\* entry of the version it had read
C23_Witness ==
  \E r \in Done :
     /\ obs[r].reads = 1
     /\ obs[r].version # store
     /\ obs[r].filled /\ obs[r].lookups = 2 /\ obs[r].err = ""
     /\ obs[r].fetched = {SourcePath \o req[r].path}
     /\ obs[r].createdAt = obs[r].opened
     /\ \A q \in Reqs \ {r} : pc[q] = "idle"

\* ---------------------------------------------------------------------------
\* The order of the handlers

\* C24: a request passes AppRewrite, then VersionSwitch, then the file
\* server, each once; the key of a request whose original path has no
\* extension is /<escaped version>/index.html when the escaped version is
\* not empty, "." or "..", even if the version holds a dot; the key of a
\* request whose original path has an extension is the cleaned join of the
\* escaped version and that path.
C24_MiddlewareOrder ==
  /\ [][\A r \in Reqs :
          pc'[r] # pc[r] =>
            <<pc[r], pc'[r]>> \in
               {<<"idle", "AppRewrite">>, <<"AppRewrite", "VersionSwitch">>,
                <<"VersionSwitch", "ServeHTTP">>,
                <<"ServeHTTP", "doCacheFetch">>, <<"ServeHTTP", "done">>}]_vars
  /\ [](\A r \in Looked :
          LET v == PathEscape(obs[r].version)
              orig == req[r].orig
          IN  /\ (Ext(orig) = <<>> /\ v \notin {<<>>, <<Dot>>, <<Dot, Dot>>})
                    => req[r].path = <<Slash>> \o v \o IndexHtml
              /\ Ext(orig) # <<>>
                    => req[r].path = Clean(<<Slash>> \o Join(v, orig)))

\* the entry document asked for under a version with a dot in it: the
\* version-prefixed path has an extension, the original path has none
C24_Witness ==
  /\ 1 \in Looked
  /\ req[1].orig = <<Slash>>
  /\ obs[1].version = <<Dot, "a">>
  /\ Ext(<<Slash>> \o obs[1].version) # <<>>
  /\ req[1].path = <<Slash, Dot, "a">> \o IndexHtml

\* ---------------------------------------------------------------------------
\* A lookup during a fill

\* the requests other than r that created the file of r's key and have not
\* finished writing it
FillersBeside(r) ==
  {q \in Reqs \ {r} :
     pc[q] = "Write" /\ ReqName(q) = OpenName(CacheDir, Clean(req[r].path))}

\* C26: the first lookup of a request, made while another request has
\* created the file of the same key and not finished writing it, is not a
\* miss: the request ends in that step with X-Cache hit and without a fetch,
\* and its response is read from the bytes the file holds then: status 500
\* and no body if they are not a status line and a header block, else the
\* stored status with the bytes of the body that are there.
C26_ReaderDuringFill ==
  [][\A r \in Reqs :
       (pc[r] = "ServeHTTP" /\ pc'[r] # "ServeHTTP" /\ FillersBeside(r) # {}) =>
         LET f == files[OpenName(CacheDir, Clean(req[r].path))]
             readable == Len(f) >= 2 /\ f[1].k = "status" /\ f[2].k = "header"
         IN  /\ pc'[r] = "done"
             /\ obs'[r].first = "file"
             /\ obs'[r].fetches = 0 /\ obs'[r].lookups = 1
             /\ rw'[r].xcache = <<"hit">>
             /\ files' = files
             /\ rw'[r].status = IF readable THEN f[1].n ELSE 500
             /\ rw'[r].body = IF readable
                              THEN [i \in 1..Min(f[2].n, Len(f) - 2) |-> f[i + 2].h]
                              ELSE <<>>]_vars

\* request 1 has written the status line, the headers and the first of two
\* body bytes when request 2 looks the key up: request 2 is answered 200 with
\* one byte, as a hit, without a fetch
C26_Witness ==
  /\ pc[1] = "Write" /\ off[1] = 3
  /\ res[1] = [status |-> 200, header |-> "h2", body |-> <<"y", "z">>]
  /\ pc[2] = "done"
  /\ ReqName(2) = ReqName(1)
  /\ obs[2].first = "file" /\ obs[2].fetches = 0
  /\ rw[2].xcache = <<"hit">>
  /\ rw[2].status = 200
  /\ rw[2].body = <<"y">>

\* ---------------------------------------------------------------------------
\* The status of the origin's response

\* the requests to which the origin returned a response
Fetched == {r \in Reqs : res[r] # NoRes}

\* the requests for the key of r1 whose first lookup came after r1 was
\* answered
LaterSameKey(r1) ==
  {r2 \in Looked : r1 \in obs[r2].after /\ ReqName(r2) = ReqName(r1)}

\* C27 as claimed: whenever the origin returned a response to the fetch of a
\* miss, whatever its status, the request that fetched is answered with that
\* status and body, and so is every later request for the key, without a
\* fetch.
C27_EveryResponseReplayed ==
  \A r1 \in Fetched \cap Done :
     /\ rw[r1].status = res[r1].status
     /\ rw[r1].body = res[r1].body
     /\ \A r2 \in LaterSameKey(r1) \cap Done :
           /\ rw[r2].status = res[r1].status
           /\ rw[r2].body = res[r1].body
           /\ obs[r2].fetches = 0

\* C27: a response of the origin is never turned down for its status: with
\* any response the fetch goes on to create the file; and when the fill
\* completed, with no other request filling the key meanwhile, the entry is
\* that response serialized, whatever its status, the request that fetched
\* is answered with its status and body, and so is every later request for
\* the key, without a fetch.
C27_CompletedFillReplayed ==
  /\ [][\A r \in Reqs :
          (pc[r] = "doCacheFetch" /\ res'[r] # NoRes) =>
             /\ res'[r] \in OriginResponses
             /\ pc'[r] = "Create"
             /\ rw'[r] = rw[r]
             /\ obs'[r].err = ""]_vars
  /\ [](\A r1 \in Fetched :
          (obs[r1].filled /\ ~obs[r1].overlap) =>
             /\ files[ReqName(r1)] = Serialize(res[r1])
             /\ pc[r1] = "done" =>
                   /\ rw[r1].status = res[r1].status
                   /\ rw[r1].body = res[r1].body
                   /\ obs[r1].fetches = 1
             /\ \A r2 \in LaterSameKey(r1) \cap Done :
                   /\ rw[r2].status = res[r1].status
                   /\ rw[r2].body = res[r1].body
                   /\ obs[r2].fetches = 0)

\* the origin answered the miss of request 1 with 404: the entry holds the
\* 404, request 1 got it, and request 2, later, got it as a hit
C27_Witness ==
  /\ Done = Reqs
  /\ res[1].status = 404
  /\ obs[1].filled /\ ~obs[1].overlap
  /\ rw[1].status = 404
  /\ 2 \in LaterSameKey(1)
  /\ rw[2].status = 404 /\ rw[2].xcache = <<"hit">>
  /\ obs[2].fetches = 0
  /\ files[ReqName(1)] = Serialize(res[1])

\* ---------------------------------------------------------------------------
\* The headers of a replayed entry

\* the header block that a lookup of request r replays in the next step, as
\* a sequence: empty when there is no file under the key or its header
\* block cannot be read
StoredHeader(r) ==
  LET name == OpenName(CacheDir, Clean(req[r].path))
  IN  IF name \in DOMAIN files /\ ReadResponse(files[name]).ok
      THEN <<ReadResponse(files[name]).header>>
      ELSE <<>>

\* C29: a lookup adds the header fields of the entry it replays to the
\* response and takes nothing away: the Set-Cookie values are the ones
\* VersionSwitch set, the Cache-Control values set before are followed by
\* the stored ones, X-Cache keeps the value the file server gave it; so a
\* request that was answered, hit or miss, has its X-Cache value, and, when
\* its version came from the query or the cookie, no-store and the
\* version-override cookie.
C29_ReplayAddsHeaders ==
  /\ [][\A r \in Reqs :
          (pc[r] \in {"ServeHTTP", "retry"} /\ pc'[r] # pc[r]) =>
             LET stored == StoredHeader(r) IN
             /\ rw'[r].setCookie = rw[r].setCookie
             /\ rw'[r].header = rw[r].header \o stored
             /\ rw'[r].cacheControl =
                   rw[r].cacheControl \o
                     (IF stored = <<>> THEN <<>> ELSE StoredCacheControl(stored[1].name))
             /\ pc[r] = "retry" => rw'[r].xcache = rw[r].xcache]_vars
  /\ [](\A r \in Done :
          /\ rw[r].xcache = IF obs[r].first = "notexist" THEN <<"miss">> ELSE <<"hit">>
          /\ IsPrefix(CacheControl(req[r].query, req[r].cookie), rw[r].cacheControl)
          /\ rw[r].setCookie = SetCookies(req[r].query, req[r].cookie))

\* two requests for the entry document of the version b of the query string,
\* whose stored response carries a Cache-Control field of its own: the miss
\* and the hit both end with no-store followed by the stored value, the
\* cookie and their X-Cache value
C29_Witness ==
  /\ Done = Reqs
  /\ \A r \in Reqs :
        /\ req[r].query = <<"b">>
        /\ obs[r].err = ""
        /\ rw[r].cacheControl = <<NoStore, "max-age">>
        /\ rw[r].setCookie = <<<<"b">>>>
        /\ Len(rw[r].header) = 1
  /\ rw[1].xcache = <<"miss">>
  /\ rw[2].xcache = <<"hit">>

\* ---------------------------------------------------------------------------
\* The refresh loop and the readers

\* C25: the refresh goroutine holds the mutex of the store, or waits for it,
\* only inside threadSafeString.Write, between Lock and Unlock, where it
\* compares and assigns; while it fetches or sleeps the mutex is neither
\* held nor asked for by it; and a Read that was called returns, whatever
\* the origin does and however long the fetch or the sleep lasts.
C25_ReadNeverBlocked ==
  /\ []((mutex.w \/ mutex.pending) <=> ppc \in {"Lock", "locked", "assignLen", "Unlock"})
  /\ [](ppc \in {"none", "fetch", "Write", "sleep"} => (~mutex.w /\ ~mutex.pending))
  /\ [][(ppc \in {"fetch", "sleep"} /\ ppc' # ppc) => (~mutex'.w /\ ~mutex'.pending)]_vars
  /\ \A r \in Reqs : (rd[r] # "idle") ~> (rd[r] = "idle" /\ got[r].returned)

\* the origin is unreachable, the refresh goroutine sleeps its five seconds
\* after the failed poll, and a Read of request 1 holds the mutex and is
\* about to return
C25_Witness ==
  /\ mainpc = "serving"
  /\ ppc = "sleep" /\ sleep = BackoffSeconds
  /\ polled.err = "transport"
  /\ rd[1] = "RUnlock"
  /\ 1 \in mutex.r
  /\ ~mutex.w /\ ~mutex.pending

\* the versions a successful poll can give
PolledVersions ==
  {fetchVersion(resp).version :
     resp \in {x \in VersionResponses : fetchVersion(x).err = ""}}

\* C28: if from some point on the last poll is always a successful one with
\* the value v, so that every poll from then on gave v, then from some point
\* on the store holds v, both words, for ever, and every Read that returns
\* from then on returns v.
C28_Convergence ==
  \A v \in PolledVersions :
     <>[](Polling /\ polled = [version |-> v, err |-> ""])
       => <>[](/\ Words(store, storeLen) = Whole(v)
               /\ \A r \in Reqs :
                     rd[r] = "RUnlock" => Words(got[r].data, got[r].len) = Whole(v))

\* the store held a, the polls give bb, the refresh goroutine has replaced
\* the value and sleeps its minute, and a Read is about to return bb
C28_Witness ==
  /\ mainpc = "serving"
  /\ <<"a">> \in passed
  /\ polled = [version |-> <<"b", "b">>, err |-> ""]
  /\ ppc = "sleep" /\ sleep = IntervalSeconds
  /\ Words(store, storeLen) = Whole(<<"b", "b">>)
  /\ rd[1] = "RUnlock"
  /\ Words(got[1].data, got[1].len) = Whole(<<"b", "b">>)

=============================================================================
